---- MODULE Spec2Model ----
(***************************************************************************)
(* Geometry hashing of the D3D9 front end (D3D9Rtx::computeHash and the    *)
(* closure it schedules on the geometry workers): buffer pinning and       *)
(* reference counting across the submission thread and the workers, index  *)
(* deduplication, and the component hashes.  The FSR3 upscaling pass       *)
(* (DxvkFSR3) and its upscaler context.                                    *)
(***************************************************************************)
EXTENDS Integers, Sequences, FiniteSets, TLC

\* ------------------------------------------------------------------------
\* Bounds of the model
\* ------------------------------------------------------------------------
\* largest index value / largest tight maxIndexValue enumerated
MaxIndexValue == 3
\* longest index stream enumerated for deduplicateSortIndices
MaxIndexCount == 4
\* vertex count of the non-empty geometries of the concurrent model
MaxVertexCount == 2
\* longest index stream of the draws hashed side by side
MaxPairCount == 3
\* number of calls made on the DxvkFSR3 object, on an FSR3UpscalerContext and
\* on an FSR3Context
MaxCalls == 4
\* longest device name and DXVK_FILTER_DEVICE_NAME value
MaxNameLen == 2
\* size of the toy digest space standing in for XXH64_hash_t
HashMod == 53

NULL == "null"

\* ------------------------------------------------------------------------
\* uint32_t, kept exactly as two 16-bit halves (2^32 - 1 does not fit the
\* checker's integers)
\* ------------------------------------------------------------------------
Half == 256 * 256

U32(n) == [hi |-> n \div Half, lo |-> n % Half]

UINT32_MAX == [hi |-> Half - 1, lo |-> Half - 1]

\* x + 1 in uint32_t arithmetic: wraps to 0 at 2^32 - 1
U32Inc(x) ==
  IF x.lo = Half - 1
    THEN [hi |-> (x.hi + 1) % Half, lo |-> 0]
    ELSE [hi |-> x.hi, lo |-> x.lo + 1]

\* a <= b on uint32_t
U32Le(a, b) == a.hi < b.hi \/ (a.hi = b.hi /\ a.lo <= b.lo)

\* the value as a natural number (used only where it is small)
U32Val(x) == x.hi * Half + x.lo

\* ------------------------------------------------------------------------
\* Mapped memory: a buffer's bytes, offset o at position o + 1
\* ------------------------------------------------------------------------
\* sizeof(T) of the index element types; NoIndices for any other stride
IndexedStrides == {2, 4}

RECURSIVE LittleEndian(_, _, _)
\* the value of the n bytes at offset off
LittleEndian(bytes, off, n) ==
  IF n = 0 THEN 0
  ELSE bytes[off + 1] + 256 * LittleEndian(bytes, off + 1, n - 1)

\* ((T*) pIndexData)[i], i from 0
ReadIndex(bytes, i, T) == LittleEndian(bytes, i * T, T)

\* the index stream the closure walks: indexCount elements of type T
IndexData(bytes, indexCount, T) ==
  [i \in 1..indexCount |-> ReadIndex(bytes, i - 1, T)]

\* the first n bytes at offset off
Slice(bytes, off, n) == [k \in 1..n |-> bytes[off + k]]

\* ------------------------------------------------------------------------
\* deduplicateSortIndices
\* ------------------------------------------------------------------------
\* const uint32_t indexRange = maxIndexValue + 1;
IndexRange(maxIndexValue) == U32Inc(maxIndexValue)

\* uniqueIndicesOut.resize(indexRange, (T)0)
ResizeTable(indexRange) == [k \in 1..U32Val(indexRange) |-> 0]

RECURSIVE FirstSeen(_, _, _)
\* the distinct values of the stream in order of first occurrence
FirstSeen(indices, i, acc) ==
  IF i > Len(indices) THEN acc
  ELSE FirstSeen(indices, i + 1,
         IF \E k \in 1..Len(acc) : acc[k] = indices[i] THEN acc ELSE Append(acc, indices[i]))

\* deduplication that keeps first-occurrence order instead of ascending order
deduplicateUnsorted(indices, maxIndexValue) == FirstSeen(indices, 1, <<>>)

RECURSIVE MarkBins(_, _, _)
\* first loop: uniqueIndicesOut[index] = 1 for every element of the stream.
\* A write past the end of the table is dropped here; WritesOutOfTable reports it.
MarkBins(table, indices, i) ==
  IF i > Len(indices) THEN table
  ELSE MarkBins(IF indices[i] < Len(table)
                  THEN [table EXCEPT ![indices[i] + 1] = 1]
                  ELSE table,
                indices, i + 1)

RECURSIVE CompactBins(_, _, _)
\* second loop, in place: if (uniqueIndicesOut[i]) uniqueIndicesOut[uniqueIndexCount++] = i
\* the result is the table and uniqueIndexCount
CompactBins(table, i, uniqueIndexCount) ==
  IF i >= Len(table) THEN [table |-> table, count |-> uniqueIndexCount]
  ELSE IF table[i + 1] # 0
    THEN CompactBins([table EXCEPT ![uniqueIndexCount + 1] = i], i + 1, uniqueIndexCount + 1)
    ELSE CompactBins(table, i + 1, uniqueIndexCount)

\* the second loop stops one bin early (i < indexRange - 1)
deduplicateSortIndicesShort(indices, maxIndexValue) ==
  LET marked == MarkBins(ResizeTable(IndexRange(maxIndexValue)), indices, 1)
      packed == CompactBins(SubSeq(marked, 1, Len(marked) - 1), 0, 0)
  IN  SubSeq(packed.table, 1, packed.count)

\* the vector left in uniqueIndicesOut when every write is in bounds
deduplicateSortIndices(indices, maxIndexValue) ==
  LET marked == MarkBins(ResizeTable(IndexRange(maxIndexValue)), indices, 1)
      packed == CompactBins(marked, 0, 0)
  IN  SubSeq(packed.table, 1, packed.count)

\* assert(index <= maxIndexValue) fails for some element
AssertIndexFails(indices, maxIndexValue) ==
  \E i \in 1..Len(indices) : ~U32Le(U32(indices[i]), maxIndexValue)

\* some uniqueIndicesOut[index] = 1 writes outside the table
WritesOutOfTable(indices, maxIndexValue) ==
  \E i \in 1..Len(indices) : U32Le(IndexRange(maxIndexValue), U32(indices[i]))

\* What a call can do.  "ok": returns the vector.  A failed assertion aborts a
\* build with assertions; a write outside the table is undefined behaviour:
\* the process dies, or the write lands elsewhere and the call returns what
\* the table holds.
DedupOutcomes(indices, maxIndexValue, ndebug) ==
  LET out == deduplicateSortIndices(indices, maxIndexValue)
  IN  IF AssertIndexFails(indices, maxIndexValue) /\ ~ndebug
        THEN {[status |-> "abort", out |-> <<>>]}
      ELSE IF WritesOutOfTable(indices, maxIndexValue)
        THEN {[status |-> "abort", out |-> <<>>], [status |-> "returned", out |-> out]}
      ELSE {[status |-> "returned", out |-> out]}

\* ------------------------------------------------------------------------
\* Hashing (rtx_hashing.h): a toy digest over a space of HashMod values
\* stands in for XXH3; a digest of data is never kEmptyHash
\* ------------------------------------------------------------------------
kEmptyHash == 0

HashComponentOrder ==
  << "VertexPosition", "VertexTexcoord", "Indices", "LegacyIndices", "LegacyPositions0",
     "LegacyPositions1", "GeometryDescriptor", "VertexLayout", "VertexShader" >>

HashComponents == {HashComponentOrder[i] : i \in 1..Len(HashComponentOrder)}

Mix(h, b) == (h * 31 + b + 7) % HashMod

RECURSIVE Absorb(_, _, _)
Absorb(h, bytes, i) ==
  IF i > Len(bytes) THEN h ELSE Absorb(Mix(h, bytes[i]), bytes, i + 1)

XXH3_64bits_withSeed(bytes, seed) ==
  1 + ((Absorb(seed, bytes, 1) + Len(bytes)) % (HashMod - 1))

XXH3_64bits(bytes) == XXH3_64bits_withSeed(bytes, 0)

\* content hash of a byte range
hashContiguousMemory(bytes) == XXH3_64bits(bytes)

\* the legacy index hash walks the index values
hashIndicesLegacy(indices) == XXH3_64bits_withSeed(indices, 1)

\* the legacy position hashes cover the whole region, query.size bytes
hashRegionLegacy0(query, bytes) == XXH3_64bits_withSeed(Slice(bytes, 0, query.size), 2)

hashRegionLegacy1(query, bytes) == XXH3_64bits_withSeed(Slice(bytes, 0, query.size), 3)

RECURSIVE HashVertices(_, _, _, _, _)
\* elementSize bytes of every listed vertex, chained in list order
HashVertices(query, bytes, indices, i, h) ==
  IF i > Len(indices) THEN h
  ELSE HashVertices(query, bytes, indices, i + 1,
         XXH3_64bits_withSeed(Slice(bytes, indices[i] * query.stride, query.elementSize), h))

\* hash of one vertex region over the deduplicated indices; with no index
\* list (non-indexed geometry) over vertices 0 .. vertexCount-1; an absent or
\* empty region hashes to kEmptyHash
hashVertexRegionIndexed(query, uniqueIndices, bytes) ==
  IF query.size = 0 THEN kEmptyHash
  ELSE LET all == [i \in 1..(query.size \div query.stride) |-> i - 1]
       IN  HashVertices(query, bytes, IF uniqueIndices = <<>> THEN all ELSE uniqueIndices,
                        1, kEmptyHash)

hashGeometryDescriptor(indexCount, vertexCount, indexType, topology) ==
  XXH3_64bits(<<indexCount, vertexCount, indexType, topology>>)

hashVertexLayout(geoData) ==
  XXH3_64bits(<<geoData.positionBuffer.stride, geoData.positionBuffer.elementSize,
                geoData.texcoordBuffer.stride, geoData.texcoordBuffer.elementSize>>)

EmptyHashes == [c \in HashComponents |-> kEmptyHash]

RECURSIVE Combine(_, _, _)
\* GeometryHashes::precombine: the components in enum order, empty ones skipped
Combine(h, i, acc) ==
  IF i > Len(HashComponentOrder) THEN acc
  ELSE Combine(h, i + 1,
         IF h[HashComponentOrder[i]] = kEmptyHash THEN acc
         ELSE XXH3_64bits_withSeed(<<h[HashComponentOrder[i]]>>, acc))

precombine(h) == Combine(h, 1, kEmptyHash)

\* ------------------------------------------------------------------------
\* State
\* ------------------------------------------------------------------------
Buffers == {"A", "B"}

Workers == {"w1", "w2"}

\* the computeHash calls of a run, in call order
Tasks == {1, 2}

VertexRegions == {"Position", "Texcoord"}

\* what a closure holds a pinned reference for
Slots == {"Position", "Texcoord", "Index"}

VARIABLES
  hashRule,       \* RtxOptions::geometryHashGenerationRule()
  ndebug,         \* the build compiles assert() out
  vsCapture,      \* m_parent->UseProgrammableVS() && useVertexCapture()
  mem,            \* the mapped bytes of each buffer
  refs,           \* DxvkBuffer reference count
  pins,           \* outstanding acquire(DxvkAccess::Read) of each buffer
  appRef,         \* the application (the RasterGeometry's slices) still holds the buffer
  pc,             \* where each computeHash call / its closure stands
  geo,            \* the RasterGeometry and maxIndexValue of each call
  closure,        \* what the lambda captured
  uniqueIndices,  \* hashGeometryData's local vector
  hashes,         \* the closure's GeometryHashes
  combined,       \* the precombined hash delivered with them
  runner,         \* the worker running the closure
  ghost,          \* history of each call: who pinned and unpinned what, and when
  dd,             \* a stand-alone deduplicateSortIndices call
  hp,             \* two draws hashed side by side
  bb,             \* the computeAxisAlignedBoundingBox call and its closure
  fsr,            \* the DxvkFSR3 object, its upscaler context and the calls made on it
  upscalerContext, \* an FSR3UpscalerContext driven directly, and the SDK contexts it made
  fsr3Context,    \* the FSR3Context of the device
  deviceFilter    \* a DxvkDeviceFilter and the adapter it was last asked about

vars == <<hashRule, ndebug, vsCapture, mem, refs, pins, appRef, pc, geo, closure,
          uniqueIndices, hashes, combined, runner, ghost, dd, hp, bb, fsr,
          upscalerContext, fsr3Context, deviceFilter>>

objVars == <<upscalerContext, fsr3Context, deviceFilter>>

hashVars == <<hashRule, ndebug, vsCapture, mem, refs, pins, appRef, pc, geo, closure,
              uniqueIndices, hashes, combined, runner, ghost>>

\* ------------------------------------------------------------------------
\* RasterGeometry
\* ------------------------------------------------------------------------
\* a RasterBuffer: the slice's buffer, its stride and the element size of its format
NoBuffer == [buffer |-> NULL, stride |-> 0, elementSize |-> 0]

\* DxvkBufferSlice::defined
defined(buffer) == buffer.buffer # NULL

\* RasterBuffer::indexType, as a small code: uint16, uint32, none
indexType(buffer) ==
  CASE buffer.stride = 2 -> 0
    [] buffer.stride = 4 -> 1
    [] OTHER -> 2

\* an indexed 16-bit draw with interleaved position and texcoord data
BaseGeometry ==
  [positionBuffer |-> [buffer |-> "A", stride |-> 2, elementSize |-> 1],
   texcoordBuffer |-> [buffer |-> "A", stride |-> 2, elementSize |-> 1],
   indexBuffer    |-> [buffer |-> "B", stride |-> 2, elementSize |-> 2],
   vertexCount    |-> MaxVertexCount,
   indexCount     |-> 2,
   topology       |-> 3,
   maxIndexValue  |-> U32(MaxVertexCount - 1)]

\* the draws submitted: the base draw and its one-field variations
Geometries ==
  { BaseGeometry,
    [BaseGeometry EXCEPT !.indexBuffer = [buffer |-> "B", stride |-> 4, elementSize |-> 4]],
    [BaseGeometry EXCEPT !.indexBuffer = NoBuffer, !.indexCount = 0],
    [BaseGeometry EXCEPT !.positionBuffer = NoBuffer],
    [BaseGeometry EXCEPT !.texcoordBuffer = NoBuffer],
    [BaseGeometry EXCEPT !.texcoordBuffer = [buffer |-> "B", stride |-> 2, elementSize |-> 1]],
    [BaseGeometry EXCEPT !.texcoordBuffer = [buffer |-> "A", stride |-> 0, elementSize |-> 1]],
    [BaseGeometry EXCEPT !.vertexCount = 0],
    [BaseGeometry EXCEPT !.indexBuffer = [buffer |-> "B", stride |-> 0, elementSize |-> 0]],
    [BaseGeometry EXCEPT !.indexBuffer = [buffer |-> NULL, stride |-> 2, elementSize |-> 2]],
    [BaseGeometry EXCEPT !.indexCount = 0],
    [BaseGeometry EXCEPT !.maxIndexValue = UINT32_MAX] }

NoGeometry ==
  [positionBuffer |-> NoBuffer, texcoordBuffer |-> NoBuffer, indexBuffer |-> NoBuffer,
   vertexCount |-> 0, indexCount |-> 0, topology |-> 0, maxIndexValue |-> U32(0)]

\* the buffers a geometry's slices refer to
BuffersOf(g) ==
  {g.positionBuffer.buffer, g.texcoordBuffer.buffer, g.indexBuffer.buffer} \ {NULL}

\* ------------------------------------------------------------------------
\* getVertexRegion
\* ------------------------------------------------------------------------
\* memset(&vertexRegions[0], 0, sizeof(vertexRegions))
ZeroQuery == [pBase |-> NULL, elementSize |-> 0, stride |-> 0, size |-> 0, ref |-> NULL]

\* getVertexRegion without its defined() test
getVertexRegionUnchecked(buffer, vertexCount) ==
  [ok |-> TRUE,
   query |-> [pBase |-> buffer.buffer, elementSize |-> buffer.elementSize,
              stride |-> buffer.stride, size |-> buffer.stride * vertexCount,
              ref |-> buffer.buffer]]

getVertexRegion(buffer, vertexCount) ==
  IF ~defined(buffer)
    THEN [ok |-> FALSE, query |-> ZeroQuery]
    ELSE [ok |-> TRUE,
          query |-> [pBase |-> buffer.buffer,
                     elementSize |-> buffer.elementSize,
                     stride |-> buffer.stride,
                     size |-> buffer.stride * vertexCount,
                     ref |-> buffer.buffer]]

\* ------------------------------------------------------------------------
\* The history kept of each call
\* ------------------------------------------------------------------------
NoGhost ==
  [acq |-> [s \in Slots |-> 0], rel |-> [s \in Slots |-> 0],
   acqBy |-> {}, relBy |-> {}, acqAfterHandOff |-> 0, unpinnedReads |-> 0,
   memAtSubmit |-> <<>>, ruleAtSubmit |-> {}]

NoClosure ==
  [vertexRegions |-> [r \in VertexRegions |-> ZeroQuery],
   indexBufferRef |-> NULL, pIndexData |-> NULL, indexStride |-> 0, indexCount |-> 0,
   maxIndexValue |-> U32(0), vertexShaderHash |-> kEmptyHash,
   geometryDescriptorHash |-> kEmptyHash, vertexLayoutHash |-> kEmptyHash]

\* the buffer a slot of the closure refers to
SlotRef(c, s) == IF s = "Index" THEN c.indexBufferRef ELSE c.vertexRegions[s].ref

\* acquires less releases recorded for buffer b on behalf of the call
HeldOn(gh, c, b) ==
  LET held(s) == IF SlotRef(c, s) = b THEN gh.acq[s] - gh.rel[s] ELSE 0
  IN  held("Position") + held("Texcoord") + held("Index")

SubmitPcs == {"schedule"}

\* _mm_set_ps1(FLT_MAX), as a value above every coordinate
FLT_MAX == 255

\* minPos and maxPos before the first vertex
NoBox == [min |-> FLT_MAX, max |-> 0 - FLT_MAX]

\* the bounding box call before it is made
AabbIdle ==
  [pc |-> "idle", geo |-> NoGeometry, pVertexData |-> NULL, vertexCount |-> 0,
   vertexStride |-> 0, vertexBuffer |-> NULL, runner |-> NULL, box |-> NoBox,
   acq |-> 0, rel |-> 0, incRefs |-> 0, decRefs |-> 0, unpinnedReads |-> 0,
   memAtSubmit |-> <<>>, needsMeshBoundingBox |-> FALSE, bytesRead |-> <<>>]

AabbClosurePcs == {"reduce", "decRef"}

ClosurePcs == {"indexHash", "indexRelease", "vertexHash", "vertexRelease", "finish"}

\* the task has been handed to the scheduler
HandedOff(t) == pc[t] \in {"queued", "done", "aborted"} \cup ClosurePcs

\* an assertion failure or a wild access ends the process
Crashed == \E t \in Tasks : pc[t] = "aborted"

GhostAcquire(gh, s, thread, late) ==
  [gh EXCEPT !.acq[s] = @ + 1, !.acqBy = @ \cup {thread},
             !.acqAfterHandOff = @ + (IF late THEN 1 ELSE 0)]

GhostRelease(gh, s, thread) ==
  [gh EXCEPT !.rel[s] = @ + 1, !.relBy = @ \cup {thread}]

GhostRead(gh, c, readBuffers) ==
  [gh EXCEPT !.unpinnedReads = @ + Cardinality({b \in readBuffers : HeldOn(gh, c, b) <= 0})]

\* ------------------------------------------------------------------------
\* D3D9Rtx::computeHash on the submission thread
\* ------------------------------------------------------------------------
\* the submission thread is not inside a computeHash call
SubmitFree == bb.pc \notin SubmitPcs /\ \A u \in Tasks : pc[u] \notin SubmitPcs

\* an undefined texcoord stream falls back to the position stream
ExtractRegionsTexcoordFallback(g) ==
  [r \in VertexRegions |->
     getVertexRegion(IF r = "Position" \/ ~defined(g.texcoordBuffer)
                       THEN g.positionBuffer ELSE g.texcoordBuffer,
                     g.vertexCount).query]

\* the vertex regions as computeHash fills them: the zeroed array, then
\* getVertexRegion for the position and the texcoord stream
ExtractRegions(g) ==
  [r \in VertexRegions |->
     getVertexRegion(IF r = "Position" THEN g.positionBuffer ELSE g.texcoordBuffer,
                     g.vertexCount).query]

\* the position region is captured without an acquire
AcquiredSlotsNoPosition(g) ==
  {r \in VertexRegions \ {"Position"} : ExtractRegions(g)[r].ref # NULL}
  \cup (IF g.indexBuffer.buffer # NULL THEN {"Index"} ELSE {})

\* what computeHash calls acquire(DxvkAccess::Read) on: each vertex region that
\* getVertexRegion filled, and the index buffer when the slice has an object
AcquiredSlots(g) ==
  {r \in VertexRegions : ExtractRegions(g)[r].ref # NULL}
  \cup (IF g.indexBuffer.buffer # NULL THEN {"Index"} ELSE {})

\* the index buffer is captured as a raw pointer without an incRef
IncRefSlotsNoIndex(g) ==
  {r \in VertexRegions : ExtractRegions(g)[r].ref # NULL}

\* what computeHash calls incRef on
IncRefSlots(g) ==
  {r \in VertexRegions : ExtractRegions(g)[r].ref # NULL}
  \cup (IF g.indexBuffer.buffer # NULL THEN {"Index"} ELSE {})

\* the buffer behind a slot of the geometry
SlotBuffer(g, s) ==
  CASE s = "Position" -> g.positionBuffer.buffer
    [] s = "Texcoord" -> g.texcoordBuffer.buffer
    [] s = "Index" -> g.indexBuffer.buffer

\* how many of the slots refer to buffer b
CountOn(g, slotSet, b) == Cardinality({s \in slotSet : SlotBuffer(g, s) = b})

RECURSIVE GhostAcquireAll(_, _, _, _)
GhostAcquireAll(gh, slotSet, thread, late) ==
  IF slotSet = {} THEN gh
  ELSE LET s == CHOOSE x \in slotSet : TRUE
       IN  GhostAcquireAll(GhostAcquire(gh, s, thread, late), slotSet \ {s}, thread, late)

\* what the lambda captures of the geometry: the regions, the raw index
\* buffer pointer, the mapped index data, stride and counts
CapturedBy(g) ==
  [NoClosure EXCEPT
     !.vertexRegions = ExtractRegions(g),
     !.indexBufferRef = g.indexBuffer.buffer,
     !.pIndexData = IF defined(g.indexBuffer) THEN g.indexBuffer.buffer ELSE NULL,
     !.indexStride = g.indexBuffer.stride,
     !.indexCount = g.indexCount,
     !.maxIndexValue = g.maxIndexValue]

\* entry up to the index stride: the invalid Future when the position stream
\* is undefined, else the regions and the index buffer are captured, acquired
\* and incRef'd
computeHashAcquire(t, g) ==
  /\ ~Crashed
  /\ pc[t] = "idle"
  /\ SubmitFree
  /\ \A u \in Tasks : u < t => pc[u] # "idle"
  /\ \A b \in BuffersOf(g) : appRef[b]
  /\ geo' = [geo EXCEPT ![t] = g]
  /\ IF ~getVertexRegion(g.positionBuffer, g.vertexCount).ok
       THEN /\ pc' = [pc EXCEPT ![t] = "invalid"]
            /\ UNCHANGED <<closure, pins, refs, ghost>>
       ELSE /\ closure' = [closure EXCEPT ![t] = CapturedBy(g)]
            /\ pins' = [b \in Buffers |-> pins[b] + CountOn(g, AcquiredSlots(g), b)]
            /\ refs' = [b \in Buffers |-> refs[b] + CountOn(g, IncRefSlots(g), b)]
            /\ ghost' = [ghost EXCEPT ![t] = GhostAcquireAll(@, AcquiredSlots(g), "submit", HandedOff(t))]
            /\ pc' = [pc EXCEPT ![t] = "schedule"]
  /\ UNCHANGED <<hashRule, ndebug, vsCapture, mem, appRef, uniqueIndices, hashes, combined, runner, dd, hp, bb, fsr, objVars>>

\* the bytes of the vertex shader and its constants hashed into vertexShaderHash
ShaderState == <<9>>

\* vertexShaderHash, geometryDescriptorHash and vertexLayoutHash as computeHash
\* computes them from the geometry and the rule
MetadataHashes(c, g, rule, vs) ==
  [c EXCEPT
     !.vertexShaderHash =
         IF vs /\ "GeometryDescriptor" \in rule THEN XXH3_64bits(ShaderState) ELSE kEmptyHash,
     !.geometryDescriptorHash =
         IF "GeometryDescriptor" \in rule
           THEN hashGeometryDescriptor(g.indexCount, g.vertexCount, indexType(g.indexBuffer), g.topology)
           ELSE kEmptyHash,
     !.vertexLayoutHash =
         IF "VertexLayout" \in rule THEN hashVertexLayout(g) ELSE kEmptyHash]

\* Schedule waits while another closure is queued and not yet taken
computeHashScheduleQueueOfOne(t) ==
  /\ ~Crashed
  /\ pc[t] = "schedule"
  /\ bb.pc # "queued" /\ \A u \in Tasks : pc[u] # "queued"
  /\ closure' = [closure EXCEPT ![t] = MetadataHashes(@, geo[t], hashRule, vsCapture)]
  /\ ghost' = [ghost EXCEPT ![t].memAtSubmit = mem, ![t].ruleAtSubmit = hashRule]
  /\ pc' = [pc EXCEPT ![t] = "queued"]
  /\ UNCHANGED <<hashRule, ndebug, vsCapture, mem, refs, pins, appRef, geo, uniqueIndices, hashes, combined, runner, dd, hp, bb, fsr, objVars>>

\* the metadata hashes, then m_pGeometryWorkers->Schedule(closure)
computeHashSchedule(t) ==
  /\ ~Crashed
  /\ pc[t] = "schedule"
  /\ closure' = [closure EXCEPT ![t] = MetadataHashes(@, geo[t], hashRule, vsCapture)]
  /\ ghost' = [ghost EXCEPT ![t].memAtSubmit = mem, ![t].ruleAtSubmit = hashRule]
  /\ pc' = [pc EXCEPT ![t] = "queued"]
  /\ UNCHANGED <<hashRule, ndebug, vsCapture, mem, refs, pins, appRef, geo, uniqueIndices, hashes, combined, runner, dd, hp, bb, fsr, objVars>>

\* ------------------------------------------------------------------------
\* The scheduled closure on a worker
\* ------------------------------------------------------------------------
\* the releases moved ahead of the hashing they protect
ClosureStepsReleaseFirst(indexStride) ==
  IF indexStride \in IndexedStrides
    THEN <<"indexRelease", "indexHash", "vertexRelease", "vertexHash", "finish">>
    ELSE <<"vertexRelease", "vertexHash", "finish">>

\* precombine placed ahead of hashGeometryData
ClosureStepsCombineFirst(indexStride) ==
  IF indexStride \in IndexedStrides
    THEN <<"finish", "indexHash", "indexRelease", "vertexHash", "vertexRelease">>
    ELSE <<"finish", "vertexHash", "vertexRelease">>

\* the statements of the closure in program order, for an index element
\* type (stride 2 or 4) and for NoIndices
ClosureSteps(indexStride) ==
  IF indexStride \in IndexedStrides
    THEN <<"indexHash", "indexRelease", "vertexHash", "vertexRelease", "finish">>
    ELSE <<"vertexHash", "vertexRelease", "finish">>

\* the step after cur ("start" before the first), "done" after the last
NextStep(indexStride, cur) ==
  LET steps == ClosureSteps(indexStride)
      at == IF cur = "start" THEN 0 ELSE CHOOSE i \in 1..Len(steps) : steps[i] = cur
  IN  IF at = Len(steps) THEN "done" ELSE steps[at + 1]

\* GeometryHashes hashes; then the three captured metadata hashes are stored
StoredMetadata(c) ==
  [EmptyHashes EXCEPT !["GeometryDescriptor"] = c.geometryDescriptorHash,
                      !["VertexLayout"] = c.vertexLayoutHash,
                      !["VertexShader"] = c.vertexShaderHash]

WorkerIdle(w) ==
  /\ \A u \in Tasks : runner[u] = w => pc[u] \notin ClosurePcs
  /\ bb.runner = w => bb.pc \notin AabbClosurePcs

\* the closure pins the position buffer itself when it starts
WorkerPickAcquiring(w, t) ==
  /\ ~Crashed
  /\ pc[t] = "queued"
  /\ WorkerIdle(w)
  /\ runner' = [runner EXCEPT ![t] = w]
  /\ hashes' = [hashes EXCEPT ![t] = StoredMetadata(closure[t])]
  /\ pins' = [pins EXCEPT ![closure[t].vertexRegions["Position"].ref] = @ + 1]
  /\ refs' = [refs EXCEPT ![closure[t].vertexRegions["Position"].ref] = @ + 1]
  /\ ghost' = [ghost EXCEPT ![t] = GhostAcquire(@, "Position", w, HandedOff(t))]
  /\ pc' = [pc EXCEPT ![t] = NextStep(closure[t].indexStride, "start")]
  /\ UNCHANGED <<hashRule, ndebug, vsCapture, mem, appRef, geo, closure, uniqueIndices, combined, dd, hp, bb, fsr, objVars>>

\* a worker takes a scheduled task and enters the closure: the three metadata
\* hashes are stored and the switch on indexStride picks the instantiation
WorkerPick(w, t) ==
  /\ ~Crashed
  /\ pc[t] = "queued"
  /\ WorkerIdle(w)
  /\ runner' = [runner EXCEPT ![t] = w]
  /\ hashes' = [hashes EXCEPT ![t] = StoredMetadata(closure[t])]
  /\ pc' = [pc EXCEPT ![t] = NextStep(closure[t].indexStride, "start")]
  /\ UNCHANGED <<hashRule, ndebug, vsCapture, mem, refs, pins, appRef, geo, closure, uniqueIndices, combined, ghost, dd, hp, bb, fsr, objVars>>

\* the legacy index hash is written to the Indices component as well
IndexHashesLegacyShared(h, indices, bytes, T, rule) ==
  [h EXCEPT
     !["Indices"] = IF "LegacyIndices" \in rule THEN hashIndicesLegacy(indices)
                    ELSE IF "Indices" \in rule
                      THEN hashContiguousMemory(Slice(bytes, 0, Len(indices) * T)) ELSE @,
     !["LegacyIndices"] = IF "LegacyIndices" \in rule THEN hashIndicesLegacy(indices) ELSE @]

\* the index hashes of hashGeometryData<T>
IndexHashes(h, indices, bytes, T, rule) ==
  [h EXCEPT
     !["Indices"] = IF "Indices" \in rule
                      THEN hashContiguousMemory(Slice(bytes, 0, Len(indices) * T)) ELSE @,
     !["LegacyIndices"] = IF "LegacyIndices" \in rule THEN hashIndicesLegacy(indices) ELSE @]

\* hashGeometryData<T>, T an index type: the assertion, deduplication and the
\* index hashes
WorkerIndexHash(t) ==
  /\ ~Crashed
  /\ pc[t] = "indexHash"
  /\ LET c == closure[t]
         T == c.indexStride
         assertFails == ~(c.indexCount > 0 /\ c.indexBufferRef # NULL)
         nullRead == c.pIndexData = NULL /\ c.indexCount > 0
         bytes == IF c.pIndexData = NULL THEN <<>> ELSE mem[c.pIndexData]
         indices == IF nullRead THEN <<>> ELSE IndexData(bytes, c.indexCount, T)
     IN  IF (assertFails /\ ~ndebug) \/ nullRead
           THEN /\ pc' = [pc EXCEPT ![t] = "aborted"]
                /\ UNCHANGED <<uniqueIndices, hashes, ghost>>
           ELSE \E o \in DedupOutcomes(indices, c.maxIndexValue, ndebug) :
                  IF o.status = "abort"
                    THEN /\ pc' = [pc EXCEPT ![t] = "aborted"]
                         /\ UNCHANGED <<uniqueIndices, hashes, ghost>>
                    ELSE /\ uniqueIndices' = [uniqueIndices EXCEPT ![t] = o.out]
                         /\ hashes' = [hashes EXCEPT ![t] = IndexHashes(@, indices, bytes, T, hashRule)]
                         /\ ghost' = [ghost EXCEPT ![t] =
                              GhostRead(@, c, IF c.indexCount > 0 THEN {c.pIndexData} ELSE {})]
                         /\ pc' = [pc EXCEPT ![t] = NextStep(T, "indexHash")]
  /\ UNCHANGED <<hashRule, ndebug, vsCapture, mem, refs, pins, appRef, geo, closure, combined, runner, dd, hp, bb, fsr, objVars>>

\* indexBufferRef->release(DxvkAccess::Read); indexBufferRef->decRef();
WorkerIndexRelease(t) ==
  /\ ~Crashed
  /\ pc[t] = "indexRelease"
  /\ LET ref == closure[t].indexBufferRef
     IN  IF ref = NULL
           THEN /\ pc' = [pc EXCEPT ![t] = "aborted"]
                /\ UNCHANGED <<pins, refs, ghost>>
           ELSE /\ pins' = [pins EXCEPT ![ref] = @ - 1]
                /\ refs' = [refs EXCEPT ![ref] = @ - 1]
                /\ ghost' = [ghost EXCEPT ![t] = GhostRelease(@, "Index", runner[t])]
                /\ pc' = [pc EXCEPT ![t] = NextStep(closure[t].indexStride, "indexRelease")]
  /\ UNCHANGED <<hashRule, ndebug, vsCapture, mem, appRef, geo, closure, uniqueIndices, hashes, combined, runner, dd, hp, bb, fsr, objVars>>

\* the bytes a region's pBase points at
RegionBytes(query, memory) == IF query.pBase = NULL THEN <<>> ELSE memory[query.pBase]

\* the vertex based rules and the legacy position hashes of hashGeometryData
VertexHashes(h, regions, unique, memory, rule) ==
  LET vertexHash(component, region) ==
        IF component \in rule
          THEN hashVertexRegionIndexed(regions[region], unique, RegionBytes(regions[region], memory))
          ELSE h[component]
      legacy == "LegacyPositions0" \in rule \/ "LegacyPositions1" \in rule
      position == regions["Position"]
  IN  [h EXCEPT
         !["VertexPosition"] = vertexHash("VertexPosition", "Position"),
         !["VertexTexcoord"] = vertexHash("VertexTexcoord", "Texcoord"),
         !["LegacyPositions0"] =
             IF legacy THEN hashRegionLegacy0(position, RegionBytes(position, memory)) ELSE @,
         !["LegacyPositions1"] =
             IF legacy THEN hashRegionLegacy1(position, RegionBytes(position, memory)) ELSE @]

\* the buffers whose mapped memory the vertex hashes read
VertexReads(regions, rule) ==
  (IF /\ regions["Position"].size > 0
      /\ rule \cap {"VertexPosition", "LegacyPositions0", "LegacyPositions1"} # {}
     THEN {regions["Position"].pBase} ELSE {})
  \cup
  (IF regions["Texcoord"].size > 0 /\ "VertexTexcoord" \in rule
     THEN {regions["Texcoord"].pBase} ELSE {})

\* the deduplicated vector is one object shared by all closures
WorkerVertexHashSharedVector(t) ==
  /\ ~Crashed
  /\ pc[t] = "vertexHash"
  /\ hashes' = [hashes EXCEPT ![t] =
       VertexHashes(@, closure[t].vertexRegions, uniqueIndices[1], mem, hashRule)]
  /\ ghost' = [ghost EXCEPT ![t] = GhostRead(@, closure[t], VertexReads(closure[t].vertexRegions, hashRule))]
  /\ pc' = [pc EXCEPT ![t] = NextStep(closure[t].indexStride, "vertexHash")]
  /\ UNCHANGED <<hashRule, ndebug, vsCapture, mem, refs, pins, appRef, geo, closure, uniqueIndices, combined, runner, dd, hp, bb, fsr, objVars>>

WorkerVertexHash(t) ==
  /\ ~Crashed
  /\ pc[t] = "vertexHash"
  /\ hashes' = [hashes EXCEPT ![t] =
       VertexHashes(@, closure[t].vertexRegions, uniqueIndices[t], mem, hashRule)]
  /\ ghost' = [ghost EXCEPT ![t] = GhostRead(@, closure[t], VertexReads(closure[t].vertexRegions, hashRule))]
  /\ pc' = [pc EXCEPT ![t] = NextStep(closure[t].indexStride, "vertexHash")]
  /\ UNCHANGED <<hashRule, ndebug, vsCapture, mem, refs, pins, appRef, geo, closure, uniqueIndices, combined, runner, dd, hp, bb, fsr, objVars>>

\* the regions the release loop unpins: size 0 is skipped, then a null ref
ReleasedRegions(regions) ==
  {r \in VertexRegions : regions[r].size # 0 /\ regions[r].ref # NULL}

\* how many of the released regions refer to buffer b
ReleasesOf(regions, b) == Cardinality({r \in ReleasedRegions(regions) : regions[r].ref = b})

RECURSIVE GhostReleaseAll(_, _, _)
GhostReleaseAll(gh, regionSet, thread) ==
  IF regionSet = {} THEN gh
  ELSE LET r == CHOOSE x \in regionSet : TRUE
       IN  GhostReleaseAll(GhostRelease(gh, r, thread), regionSet \ {r}, thread)

\* the release loop over vertexRegions
WorkerVertexRelease(t) ==
  /\ ~Crashed
  /\ pc[t] = "vertexRelease"
  /\ LET regions == closure[t].vertexRegions
     IN  /\ pins' = [b \in Buffers |-> pins[b] - ReleasesOf(regions, b)]
         /\ refs' = [b \in Buffers |-> refs[b] - ReleasesOf(regions, b)]
         /\ ghost' = [ghost EXCEPT ![t] = GhostReleaseAll(@, ReleasedRegions(regions), runner[t])]
  /\ pc' = [pc EXCEPT ![t] = NextStep(closure[t].indexStride, "vertexRelease")]
  /\ UNCHANGED <<hashRule, ndebug, vsCapture, mem, appRef, geo, closure, uniqueIndices, hashes, combined, runner, dd, hp, bb, fsr, objVars>>

\* assert(hashes[VertexPosition] != kEmptyHash); hashes.precombine(); return hashes
WorkerFinish(t) ==
  /\ ~Crashed
  /\ pc[t] = "finish"
  /\ IF hashes[t]["VertexPosition"] = kEmptyHash /\ ~ndebug
       THEN /\ pc' = [pc EXCEPT ![t] = "aborted"]
            /\ UNCHANGED combined
       ELSE /\ combined' = [combined EXCEPT ![t] = precombine(hashes[t])]
            /\ pc' = [pc EXCEPT ![t] = NextStep(closure[t].indexStride, "finish")]
  /\ UNCHANGED <<hashRule, ndebug, vsCapture, mem, refs, pins, appRef, geo, closure, uniqueIndices, hashes, runner, ghost, dd, hp, bb, fsr, objVars>>

\* ------------------------------------------------------------------------
\* The application and the staging allocator
\* ------------------------------------------------------------------------
\* bytes written by whoever gets the memory next
Recycled == <<3, 0, 2, 0, 3, 0, 2, 0>>

\* the caller drops every reference it holds to the buffers of its draws
\* (outside a computeHash call)
DropAppRefs ==
  /\ ~Crashed
  /\ SubmitFree
  /\ \E b \in Buffers : appRef[b]
  /\ appRef' = [b \in Buffers |-> FALSE]
  /\ refs' = [b \in Buffers |-> IF appRef[b] THEN refs[b] - 1 ELSE refs[b]]
  /\ UNCHANGED <<hashRule, ndebug, vsCapture, mem, pins, pc, geo, closure, uniqueIndices, hashes, combined, runner, ghost, dd, hp, bb, fsr, objVars>>

\* memory the application let go is reused once nothing pins it, or at once
\* when the buffer object is gone
Recycle(b) ==
  /\ ~Crashed
  /\ ~appRef[b]
  /\ pins[b] <= 0 \/ refs[b] <= 0
  /\ mem[b] # Recycled
  /\ mem' = [mem EXCEPT ![b] = Recycled]
  /\ UNCHANGED <<hashRule, ndebug, vsCapture, refs, pins, appRef, pc, geo, closure, uniqueIndices, hashes, combined, runner, ghost, dd, hp, bb, fsr, objVars>>

\* ------------------------------------------------------------------------
\* D3D9Rtx::computeAxisAlignedBoundingBox
\* ------------------------------------------------------------------------
\* RasterBuffer::mapPtr: the mapped memory of a defined slice, else nullptr
mapPtr(buffer) == IF defined(buffer) THEN buffer.buffer ELSE NULL

\* the entry without the early return on needsMeshBoundingBox
computeAabbIncRefUnconditional(g, needsMeshBoundingBox) ==
  /\ ~Crashed
  /\ bb.pc = "idle"
  /\ SubmitFree
  /\ \A b \in BuffersOf(g) : appRef[b]
  /\ IF mapPtr(g.positionBuffer) = NULL
       THEN /\ bb' = [bb EXCEPT !.pc = "invalid", !.geo = g,
                                !.needsMeshBoundingBox = needsMeshBoundingBox]
            /\ UNCHANGED refs
       ELSE /\ bb' = [bb EXCEPT !.pc = "schedule", !.geo = g,
                                !.needsMeshBoundingBox = needsMeshBoundingBox,
                                !.pVertexData = mapPtr(g.positionBuffer),
                                !.vertexCount = g.vertexCount,
                                !.vertexStride = g.positionBuffer.stride,
                                !.vertexBuffer = g.positionBuffer.buffer,
                                !.incRefs = @ + 1]
            /\ refs' = [refs EXCEPT ![g.positionBuffer.buffer] = @ + 1]
  /\ UNCHANGED <<hashRule, ndebug, vsCapture, mem, pins, appRef, pc, geo, closure, uniqueIndices, hashes, combined, runner, ghost, dd, hp, fsr, objVars>>

\* entry up to vertexBuffer->incRef(): the invalid Future when no bounding box
\* is needed or the position data is not mapped
computeAabbIncRef(g, needsMeshBoundingBox) ==
  /\ ~Crashed
  /\ bb.pc = "idle"
  /\ SubmitFree
  /\ \A b \in BuffersOf(g) : appRef[b]
  /\ IF ~needsMeshBoundingBox \/ mapPtr(g.positionBuffer) = NULL
       THEN /\ bb' = [bb EXCEPT !.pc = "invalid", !.geo = g,
                                !.needsMeshBoundingBox = needsMeshBoundingBox]
            /\ UNCHANGED refs
       ELSE /\ bb' = [bb EXCEPT !.pc = "schedule", !.geo = g,
                                !.needsMeshBoundingBox = needsMeshBoundingBox,
                                !.pVertexData = mapPtr(g.positionBuffer),
                                !.vertexCount = g.vertexCount,
                                !.vertexStride = g.positionBuffer.stride,
                                !.vertexBuffer = g.positionBuffer.buffer,
                                !.incRefs = @ + 1]
            /\ refs' = [refs EXCEPT ![g.positionBuffer.buffer] = @ + 1]
  /\ UNCHANGED <<hashRule, ndebug, vsCapture, mem, pins, appRef, pc, geo, closure, uniqueIndices, hashes, combined, runner, ghost, dd, hp, fsr, objVars>>

\* m_pGeometryWorkers->Schedule(closure)
computeAabbSchedule ==
  /\ ~Crashed
  /\ bb.pc = "schedule"
  /\ bb' = [bb EXCEPT !.pc = "queued", !.memAtSubmit = mem]
  /\ UNCHANGED <<hashVars, dd, hp, fsr, objVars>>

\* a worker takes the bounding box closure
AabbPick(w) ==
  /\ ~Crashed
  /\ bb.pc = "queued"
  /\ WorkerIdle(w)
  /\ bb' = [bb EXCEPT !.pc = "reduce", !.runner = w]
  /\ UNCHANGED <<hashVars, dd, hp, fsr, objVars>>

RECURSIVE MinMaxSkipLast(_, _, _, _, _)
\* the loop stopping one vertex short
MinMaxSkipLast(box, bytes, vertexStride, vertexIdx, vertexCount) ==
  IF vertexIdx + 1 >= vertexCount THEN box
  ELSE LET x == bytes[vertexStride * vertexIdx + 1]
       IN  MinMaxSkipLast([min |-> IF x < box.min THEN x ELSE box.min,
                           max |-> IF x > box.max THEN x ELSE box.max],
                          bytes, vertexStride, vertexIdx + 1, vertexCount)

RECURSIVE MinMax(_, _, _, _, _)
\* the loop over the vertices: the first coordinate byte of each vertex
\* stands for its position, the three lanes of _mm_min_ps / _mm_max_ps being
\* treated alike
MinMax(box, bytes, vertexStride, vertexIdx, vertexCount) ==
  IF vertexIdx >= vertexCount THEN box
  ELSE LET x == bytes[vertexStride * vertexIdx + 1]
       IN  MinMax([min |-> IF x < box.min THEN x ELSE box.min,
                   max |-> IF x > box.max THEN x ELSE box.max],
                  bytes, vertexStride, vertexIdx + 1, vertexCount)

\* the box of the captured vertex data as the given memory holds it
BoxOf(call, memory) ==
  MinMax(NoBox, memory[call.pVertexData], call.vertexStride, 0, call.vertexCount)

\* the min/max loop of the closure
AabbReduce ==
  /\ ~Crashed
  /\ bb.pc = "reduce"
  /\ bb' = [bb EXCEPT
       !.pc = "decRef",
       !.box = BoxOf(bb, mem),
       !.bytesRead = mem[bb.pVertexData],
       !.unpinnedReads = @ + (IF bb.vertexCount > 0 /\ pins[bb.pVertexData] <= 0 THEN 1 ELSE 0)]
  /\ UNCHANGED <<hashVars, dd, hp, fsr, objVars>>

\* vertexBuffer->decRef(); return boundingBox
AabbDecRef ==
  /\ ~Crashed
  /\ bb.pc = "decRef"
  /\ refs' = [refs EXCEPT ![bb.vertexBuffer] = @ - 1]
  /\ bb' = [bb EXCEPT !.pc = "done", !.decRefs = @ + 1]
  /\ UNCHANGED <<hashRule, ndebug, vsCapture, mem, pins, appRef, pc, geo, closure, uniqueIndices, hashes, combined, runner, ghost, dd, hp, fsr, objVars>>

\* ------------------------------------------------------------------------
\* DxvkFSR3 (rtx_fsr3.cpp) and FSR3UpscalerContext (rtx_fsr3_wrapper)
\* ------------------------------------------------------------------------
\* enum class FSR3Profile : uint32_t
UltraPerf == 0
MaxPerf == 1
Balanced == 2
MaxQuality == 3
Auto == 4
FullResolution == 5
Invalid == 6

FSR3Profiles == UltraPerf..Invalid

\* RtxOptions::graphicsPreset()
GraphicsPresets == {"High", "Medium", "Low"}

\* the display sizes passed to setSetting: none yet, 1080p, 1440p, 4K, 8K
DisplaySizes == {<<0, 0>>, <<1920, 1080>>, <<2560, 1440>>, <<3840, 2160>>, <<7680, 4320>>}

\* the two revisions of rtx_fsr3.cpp: the one driving an FSR3UpscalerContext
\* and the placeholder without a context
DxvkFSR3Revisions == {"wrapper", "placeholder"}

\* the two revisions of FSR3UpscalerContext::initialize: the one that leaves
\* the feature disabled and the one that creates the SDK context
InitializeRevisions == {"disabled", "sdk"}

\* std::max
Max(a, b) == IF a >= b THEN a ELSE b

\* getAutoProfile lowering the profile without the std::max against 0
getAutoProfileUnclamped(displayWidth, displayHeight, graphicsPreset) ==
  LET desiredProfile ==
        IF displayHeight <= 1080 THEN MaxQuality
        ELSE IF displayHeight < 2160 THEN Balanced
        ELSE IF displayHeight < 4320 THEN MaxPerf
        ELSE UltraPerf
  IN  IF graphicsPreset = "Medium" THEN desiredProfile - 1
      ELSE IF graphicsPreset = "Low" THEN desiredProfile - 2
      ELSE desiredProfile

getAutoProfile(displayWidth, displayHeight, graphicsPreset) ==
  LET desiredProfile ==
        IF displayHeight <= 1080 THEN MaxQuality
        ELSE IF displayHeight < 2160 THEN Balanced
        ELSE IF displayHeight < 4320 THEN MaxPerf
        ELSE UltraPerf
  IN  IF graphicsPreset = "Medium" THEN Max(0, desiredProfile - 1)
      ELSE IF graphicsPreset = "Low" THEN Max(0, desiredProfile - 2)
      ELSE desiredProfile

profileToQualityMode(profile) ==
  IF profile = UltraPerf THEN 0
  ELSE IF profile = MaxPerf THEN 1
  ELSE IF profile = Balanced THEN 2
  ELSE IF profile = MaxQuality THEN 3
  ELSE IF profile = FullResolution THEN 4
  ELSE 2

\* std::unique_ptr<FSR3UpscalerContext> holding nullptr
NoUpscalerContext == [null |-> TRUE, m_initialized |-> FALSE, m_fsr3Context |-> FALSE]

\* a freshly made FSR3UpscalerContext: m_initialized = false, and
\* m_fsr3Context (TRUE when the SDK context pointer is not null) = nullptr
NewUpscalerContext == [null |-> FALSE, m_initialized |-> FALSE, m_fsr3Context |-> FALSE]

\* FSR3Context::createFSR3UpscalerContext: nullptr unless FSR3 is supported
createFSR3UpscalerContext(supportsFSR3) ==
  IF supportsFSR3 THEN NewUpscalerContext ELSE NoUpscalerContext

isFSR3Initialized(context) == context.m_initialized /\ context.m_fsr3Context

\* releaseFSR3Feature that destroys the SDK context and leaves m_initialized set
releaseFSR3FeatureKeepInitialized(context) ==
  IF ~context.m_initialized THEN context
  ELSE [null |-> FALSE, m_initialized |-> TRUE, m_fsr3Context |-> FALSE]

releaseFSR3Feature(context) ==
  IF ~context.m_initialized THEN context
  ELSE [null |-> FALSE, m_initialized |-> FALSE, m_fsr3Context |-> FALSE]

\* FSR3UpscalerContext::initialize in either revision; created tells whether
\* ffxFsr3UpscalerContextCreate returned FFX_OK
initialize(context, revision, created) ==
  LET released == releaseFSR3Feature(context)
  IN  IF revision = "disabled" THEN [released EXCEPT !.m_initialized = FALSE]
      ELSE IF created THEN [null |-> FALSE, m_initialized |-> TRUE, m_fsr3Context |-> TRUE]
      ELSE [released EXCEPT !.m_fsr3Context = FALSE]

\* ten times the upscale ratio the SDK gives for an FfxFsr3UpscalerQualityMode
\* (native 1.0, quality 1.5, balanced 1.7, performance 2.0, ultra 3.0)
ffxFsr3UpscalerGetUpscaleRatioFromQualityMode(qualityMode) ==
  IF qualityMode = 1 THEN 15
  ELSE IF qualityMode = 2 THEN 17
  ELSE IF qualityMode = 3 THEN 20
  ELSE IF qualityMode = 4 THEN 30
  ELSE IF qualityMode = 0 THEN 10
  ELSE 0

\* (uint32_t)(size / ratio), the ratio given times ten
Scaled(size, ratio10) == (size * 10) \div ratio10

\* optimalRenderSize of FSR3UpscalerContext::queryOptimalSettings
queryOptimalSettings(context, displaySize, qualityMode) ==
  LET ratio10 ==
        IF context.m_fsr3Context
          THEN ffxFsr3UpscalerGetUpscaleRatioFromQualityMode(qualityMode)
        ELSE IF qualityMode = 4 THEN 30
        ELSE IF qualityMode = 3 THEN 23
        ELSE IF qualityMode = 2 THEN 17
        ELSE IF qualityMode = 1 THEN 13
        ELSE 10
  IN  IF ratio10 > 10
        THEN <<Scaled(displaySize[1], ratio10), Scaled(displaySize[2], ratio10)>>
        ELSE displaySize

\* (x + step - 1) / step * step with step = 32
Align32(x) == ((x + 32 - 1) \div 32) * 32

\* the hardcoded scaling ratio of a profile, times ten
scalingRatio(actualProfile) ==
  IF actualProfile = UltraPerf THEN 30
  ELSE IF actualProfile = MaxPerf THEN 23
  ELSE IF actualProfile = Balanced THEN 17
  ELSE IF actualProfile = MaxQuality THEN 13
  ELSE 17

\* the object after its constructor, with the history kept about it:
\* outRenderSize is the caller's array, lastOp .. calls record the calls made
NewFSR3(revision, initializeRevision, supportsFSR3, graphicsPreset) ==
  [revision |-> revision,
   initializeRevision |-> initializeRevision,
   supportsFSR3 |-> supportsFSR3,
   graphicsPreset |-> graphicsPreset,
   mProfile |-> Invalid,
   mActualProfile |-> Invalid,
   mRecreate |-> TRUE,
   mInputSize |-> <<0, 0>>,
   mFSR3OutputSize |-> <<0, 0>>,
   m_fsr3Context |-> IF revision = "wrapper"
                       THEN createFSR3UpscalerContext(supportsFSR3) ELSE NoUpscalerContext,
   outRenderSize |-> <<0, 0>>,
   lastOp |-> "constructor",
   lastArgs |-> [displaySize |-> <<0, 0>>, profile |-> Invalid],
   stateChanging |-> FALSE,
   pending |-> FALSE,
   dispatched |-> FALSE,
   ffxError |-> FALSE,
   trace |-> <<>>,
   calls |-> 0]

\* the object of the specifications that make no FSR3 call
IdleFSR3 == NewFSR3("wrapper", "disabled", FALSE, "High")

getCurrentProfile == fsr.mActualProfile

getInputSize == fsr.mInputSize

\* getOutputSize reading the input size
getOutputSizeOfInput == fsr.mInputSize

getOutputSize == fsr.mFSR3OutputSize

\* the render size in the revision without a context: the hardcoded ratio,
\* then the alignment to 32
PlaceholderInputSize(displaySize, actualProfile) ==
  <<Align32(Scaled(displaySize[1], scalingRatio(actualProfile))),
    Align32(Scaled(displaySize[2], scalingRatio(actualProfile)))>>

\* the render size in the revision with a context, which has been created
\* if it was missing: the aligned optimal size, or the hardcoded ratio
WrapperInputSize(context, displaySize, actualProfile) ==
  IF context # NoUpscalerContext
    THEN LET optimal == queryOptimalSettings(context, displaySize,
                                             profileToQualityMode(actualProfile))
         IN  <<Align32(optimal[1]), Align32(optimal[2])>>
    ELSE <<Scaled(displaySize[1], scalingRatio(actualProfile)),
           Scaled(displaySize[2], scalingRatio(actualProfile))>>

\* setSetting without the early return on unchanged settings
setSettingNoCache(displaySize, profile) ==
  /\ fsr.calls < MaxCalls
  /\ LET actualProfile ==
           IF profile = Auto
             THEN getAutoProfile(displaySize[1], displaySize[2], fsr.graphicsPreset)
             ELSE profile
         context == IF fsr.revision = "wrapper" /\ profile # FullResolution
                       /\ fsr.m_fsr3Context = NoUpscalerContext
                      THEN createFSR3UpscalerContext(fsr.supportsFSR3)
                      ELSE fsr.m_fsr3Context
         inputSize == IF profile = FullResolution THEN displaySize
                      ELSE IF fsr.revision = "wrapper"
                        THEN WrapperInputSize(context, displaySize, actualProfile)
                        ELSE PlaceholderInputSize(displaySize, actualProfile)
     IN  fsr' = [fsr EXCEPT
                   !.mActualProfile = actualProfile,
                   !.mRecreate = TRUE,
                   !.mProfile = profile,
                   !.m_fsr3Context = context,
                   !.mInputSize = inputSize,
                   !.outRenderSize = inputSize,
                   !.mFSR3OutputSize = displaySize,
                   !.lastOp = "setSetting",
                   !.lastArgs = [displaySize |-> displaySize, profile |-> profile],
                   !.stateChanging = TRUE,
                   !.pending = TRUE,
                   !.calls = @ + 1]
  /\ UNCHANGED <<hashVars, dd, hp, bb, objVars>>

\* setSetting storing the requested profile as the actual one
setSettingUnresolved(displaySize, profile) ==
  /\ fsr.calls < MaxCalls
  /\ fsr' = [fsr EXCEPT
               !.mActualProfile = profile,
               !.mRecreate = TRUE,
               !.mProfile = profile,
               !.mInputSize = displaySize,
               !.outRenderSize = displaySize,
               !.mFSR3OutputSize = displaySize,
               !.lastOp = "setSetting",
               !.lastArgs = [displaySize |-> displaySize, profile |-> profile],
               !.stateChanging = TRUE,
               !.pending = TRUE,
               !.calls = @ + 1]
  /\ UNCHANGED <<hashVars, dd, hp, bb, objVars>>

\* DxvkFSR3::setSetting, either revision
setSetting(displaySize, profile) ==
  /\ fsr.calls < MaxCalls
  /\ LET actualProfile ==
           IF profile = Auto
             THEN getAutoProfile(displaySize[1], displaySize[2], fsr.graphicsPreset)
             ELSE profile
         context == IF fsr.revision = "wrapper" /\ profile # FullResolution
                       /\ fsr.m_fsr3Context = NoUpscalerContext
                      THEN createFSR3UpscalerContext(fsr.supportsFSR3)
                      ELSE fsr.m_fsr3Context
         inputSize == IF profile = FullResolution THEN displaySize
                      ELSE IF fsr.revision = "wrapper"
                        THEN WrapperInputSize(context, displaySize, actualProfile)
                        ELSE PlaceholderInputSize(displaySize, actualProfile)
     IN  IF fsr.mActualProfile = actualProfile /\ displaySize = fsr.mFSR3OutputSize
           THEN fsr' = [fsr EXCEPT
                          !.outRenderSize = fsr.mInputSize,
                          !.lastOp = "setSetting",
                          !.lastArgs = [displaySize |-> displaySize, profile |-> profile],
                          !.calls = @ + 1]
           ELSE fsr' = [fsr EXCEPT
                          !.mActualProfile = actualProfile,
                          !.mRecreate = TRUE,
                          !.mProfile = profile,
                          !.m_fsr3Context = context,
                          !.mInputSize = inputSize,
                          !.outRenderSize = inputSize,
                          !.mFSR3OutputSize = displaySize,
                          !.lastOp = "setSetting",
                          !.lastArgs = [displaySize |-> displaySize, profile |-> profile],
                          !.stateChanging = TRUE,
                          !.pending = TRUE,
                          !.calls = @ + 1]
  /\ UNCHANGED <<hashVars, dd, hp, bb, objVars>>

\* DxvkFSR3::release
release ==
  /\ fsr.calls < MaxCalls
  /\ fsr' = [fsr EXCEPT
               !.mRecreate = TRUE,
               !.m_fsr3Context = IF @ # NoUpscalerContext THEN releaseFSR3Feature(@) ELSE @,
               !.lastOp = "release",
               !.pending = TRUE,
               !.calls = @ + 1]
  /\ UNCHANGED <<hashVars, dd, hp, bb, objVars>>

\* DxvkFSR3::onDestroy
onDestroy ==
  /\ fsr.calls < MaxCalls
  /\ fsr' = [fsr EXCEPT !.m_fsr3Context = NoUpscalerContext, !.lastOp = "onDestroy", !.calls = @ + 1]
  /\ UNCHANGED <<hashVars, dd, hp, bb, objVars>>

\* m_fsr3Context after DxvkFSR3::initializeFSR3
initializeFSR3(object, created) ==
  IF object.revision = "placeholder" THEN object.m_fsr3Context
  ELSE LET context == IF object.m_fsr3Context = NoUpscalerContext
                        THEN createFSR3UpscalerContext(object.supportsFSR3)
                        ELSE object.m_fsr3Context
       IN  IF context = NoUpscalerContext THEN NoUpscalerContext
           ELSE initialize(releaseFSR3Feature(context), object.initializeRevision, created)

\* whether the initialization attempt of a dispatch got an error code from
\* ffxFsr3UpscalerContextCreate: only the revision of initialize that calls
\* the SDK can, and only on a context that exists
ffxErrorIn(object, created) ==
  /\ object.mRecreate /\ ~created
  /\ object.revision = "wrapper" /\ object.initializeRevision = "sdk"
  /\ (object.m_fsr3Context # NoUpscalerContext \/ object.supportsFSR3)

\* the calls dispatch makes after the initialization attempt
DispatchBody(object, context) ==
  IF object.revision = "placeholder"
    THEN <<"accessImage", "accessImage", "recordCommands", "accessImage", "recordCommands">>
  ELSE IF context = NoUpscalerContext \/ ~isFSR3Initialized(context) THEN <<>>
  ELSE <<"accessImage", "accessImage", "recordCommands", "evaluateFSR3",
         "accessImage", "recordCommands">>

\* dispatch that forgets to clear mRecreate
dispatchKeepRecreate(created) ==
  /\ fsr.calls < MaxCalls
  /\ LET context == IF fsr.mRecreate THEN initializeFSR3(fsr, created) ELSE fsr.m_fsr3Context
     IN  fsr' = [fsr EXCEPT
                   !.m_fsr3Context = context,
                   !.trace = (IF fsr.mRecreate THEN <<"initializeFSR3">> ELSE <<>>)
                             \o DispatchBody(fsr, context),
                   !.lastOp = "dispatch",
                   !.ffxError = ffxErrorIn(fsr, created),
                   !.pending = FALSE,
                   !.dispatched = TRUE,
                   !.calls = @ + 1]
  /\ UNCHANGED <<hashVars, dd, hp, bb, objVars>>

\* dispatch without the test of the context
dispatchUnchecked(created) ==
  /\ fsr.calls < MaxCalls
  /\ LET context == IF fsr.mRecreate THEN initializeFSR3(fsr, created) ELSE fsr.m_fsr3Context
     IN  fsr' = [fsr EXCEPT
                   !.mRecreate = FALSE,
                   !.m_fsr3Context = context,
                   !.trace = (IF fsr.mRecreate THEN <<"initializeFSR3">> ELSE <<>>)
                             \o <<"accessImage", "accessImage", "recordCommands",
                                  "evaluateFSR3", "accessImage", "recordCommands">>,
                   !.lastOp = "dispatch",
                   !.ffxError = ffxErrorIn(fsr, created),
                   !.pending = FALSE,
                   !.dispatched = TRUE,
                   !.calls = @ + 1]
  /\ UNCHANGED <<hashVars, dd, hp, bb, objVars>>

\* DxvkFSR3::dispatch; created is the outcome of ffxFsr3UpscalerContextCreate
\* should initialize get to it
dispatch(created) ==
  /\ fsr.calls < MaxCalls
  /\ LET context == IF fsr.mRecreate THEN initializeFSR3(fsr, created) ELSE fsr.m_fsr3Context
     IN  fsr' = [fsr EXCEPT
                   !.mRecreate = FALSE,
                   !.m_fsr3Context = context,
                   !.trace = (IF fsr.mRecreate THEN <<"initializeFSR3">> ELSE <<>>)
                             \o DispatchBody(fsr, context),
                   !.lastOp = "dispatch",
                   !.ffxError = ffxErrorIn(fsr, created),
                   !.pending = FALSE,
                   !.dispatched = TRUE,
                   !.calls = @ + 1]
  /\ UNCHANGED <<hashVars, dd, hp, bb, objVars>>

\* the graphics preset option is given a new value
SetGraphicsPreset(graphicsPreset) ==
  /\ fsr.calls < MaxCalls
  /\ graphicsPreset # fsr.graphicsPreset
  /\ fsr' = [fsr EXCEPT !.graphicsPreset = graphicsPreset, !.lastOp = "graphicsPreset",
                        !.calls = @ + 1]
  /\ UNCHANGED <<hashVars, dd, hp, bb, objVars>>

\* ------------------------------------------------------------------------
\* An FSR3UpscalerContext driven directly
\* ------------------------------------------------------------------------
\* an FSR3UpscalerContext after its constructor, with the history kept about
\* it: alive until the destructor has run, handle names the SDK context that
\* m_fsr3Context points to (0 for none), created counts the SDK contexts
\* ffxFsr3UpscalerContextCreate has made, destroys the
\* ffxFsr3UpscalerContextDestroy calls on each of them, and flags the
\* contextDesc.flags each was made with
NewUpscaler(revision) ==
  [revision |-> revision, alive |-> TRUE, object |-> NewUpscalerContext,
   handle |-> 0, created |-> 0, destroys |-> [h \in 1..MaxCalls |-> 0],
   flags |-> [h \in 1..MaxCalls |-> {}],
   lastOp |-> "constructor", calls |-> 0]

\* the context of the specifications that do not drive one
IdleUpscaler == [NewUpscaler("disabled") EXCEPT !.alive = FALSE]

\* releaseFSR3Feature gets to ffxFsr3UpscalerContextDestroy
destroysContext(context) == context.m_initialized /\ context.m_fsr3Context

\* the context and the SDK's contexts after releaseFSR3Feature()
Released(u) ==
  LET after == releaseFSR3Feature(u.object)
  IN  [u EXCEPT
         !.object = after,
         !.destroys = IF destroysContext(u.object) /\ u.handle \in DOMAIN u.destroys
                        THEN [@ EXCEPT ![u.handle] = @ + 1] ELSE @,
         !.handle = IF after.m_fsr3Context THEN @ ELSE 0]

\* contextDesc.flags of FSR3UpscalerContext::initialize
contextDescFlags(isContentHDR, depthInverted) ==
  (IF isContentHDR THEN {"FFX_FSR3UPSCALER_ENABLE_HIGH_DYNAMIC_RANGE"} ELSE {})
  \cup (IF depthInverted THEN {"FFX_FSR3UPSCALER_ENABLE_DEPTH_INVERTED"} ELSE {})

\* FSR3UpscalerContext::initialize called on the context; created is the
\* outcome of ffxFsr3UpscalerContextCreate should the revision call it
UpscalerInitialize(created, isContentHDR, depthInverted) ==
  /\ upscalerContext.alive /\ upscalerContext.calls < MaxCalls
  /\ LET u == upscalerContext
         released == Released(u)
         made == u.revision = "sdk" /\ created
         after == initialize(u.object, u.revision, created)
     IN  upscalerContext' =
           [released EXCEPT
              !.object = after,
              !.created = IF made THEN @ + 1 ELSE @,
              !.handle = IF made THEN released.created + 1
                         ELSE IF after.m_fsr3Context THEN @ ELSE 0,
              !.flags = IF made
                          THEN [@ EXCEPT ![released.created + 1] =
                                  contextDescFlags(isContentHDR, depthInverted)]
                          ELSE @,
              !.lastOp = "initialize",
              !.calls = @ + 1]
  /\ UNCHANGED <<hashVars, dd, hp, bb, fsr, fsr3Context, deviceFilter>>

\* FSR3UpscalerContext::releaseFSR3Feature called on the context
UpscalerRelease ==
  /\ upscalerContext.alive /\ upscalerContext.calls < MaxCalls
  /\ upscalerContext' = [Released(upscalerContext) EXCEPT
                           !.lastOp = "releaseFSR3Feature", !.calls = @ + 1]
  /\ UNCHANGED <<hashVars, dd, hp, bb, fsr, fsr3Context, deviceFilter>>

\* FSR3UpscalerContext::~FSR3UpscalerContext
UpscalerDestroy ==
  /\ upscalerContext.alive /\ upscalerContext.calls < MaxCalls
  /\ upscalerContext' = [Released(upscalerContext) EXCEPT
                           !.alive = FALSE, !.lastOp = "destructor", !.calls = @ + 1]
  /\ UNCHANGED <<hashVars, dd, hp, bb, fsr, fsr3Context, deviceFilter>>

\* the next FSR3UpscalerContext is constructed
UpscalerConstruct ==
  /\ ~upscalerContext.alive /\ upscalerContext.calls < MaxCalls
  /\ upscalerContext' = [upscalerContext EXCEPT
                           !.alive = TRUE, !.object = NewUpscalerContext, !.handle = 0,
                           !.lastOp = "constructor", !.calls = @ + 1]
  /\ UNCHANGED <<hashVars, dd, hp, bb, fsr, fsr3Context, deviceFilter>>

\* ------------------------------------------------------------------------
\* FSR3Context (rtx_fsr3_wrapper.cpp)
\* ------------------------------------------------------------------------
\* limits.maxComputeWorkGroupSize[0..1] of the devices constructed on
WorkGroupSizes == {<<1024, 1024>>, <<32, 32>>, <<16, 1024>>, <<1024, 31>>}

\* an FSR3Context before the body of its constructor: m_device and
\* m_ffxInterface are TRUE when the pointer is not null; lastOp .. calls
\* record the calls made, attempt the outcome of the last initialize() and
\* returned what the last createFSR3UpscalerContext gave back
NewFSR3Context(device, maxComputeWorkGroupSize) ==
  [m_device |-> device,
   maxComputeWorkGroupSize |-> maxComputeWorkGroupSize,
   m_initialized |-> FALSE,
   m_supportsFSR3 |-> FALSE,
   m_ffxInterface |-> FALSE,
   m_fsr3NotSupportedReason |-> "",
   attempt |-> "none",
   returned |-> "none",
   lastOp |-> "constructor",
   calls |-> 0]

\* the context of the specifications that make no call on one
IdleFSR3Context == NewFSR3Context(FALSE, <<1024, 1024>>)

checkFSR3Support(c) ==
  ~(c.maxComputeWorkGroupSize[1] < 32 \/ c.maxComputeWorkGroupSize[2] < 32)

\* the context after setupVulkanInterface; ffxOk tells whether
\* ffxGetInterfaceVK returned FFX_OK
setupVulkanInterface(c, ffxOk) == [c EXCEPT !.m_ffxInterface = ffxOk]

\* the context after FSR3Context::initialize, attempt telling how it returned
\* (true for "already" and "ok", false otherwise)
FSR3ContextInitialize(c, ffxOk) ==
  IF c.m_initialized THEN [c EXCEPT !.attempt = "already"]
  ELSE IF ~c.m_device
    THEN [c EXCEPT !.m_fsr3NotSupportedReason = "Device not initialized",
                   !.attempt = "device"]
  ELSE IF ~checkFSR3Support(c)
    THEN [c EXCEPT !.m_fsr3NotSupportedReason = "FSR3 not supported on this hardware/driver",
                   !.attempt = "support"]
  ELSE IF ~setupVulkanInterface(c, ffxOk).m_ffxInterface
    THEN [setupVulkanInterface(c, ffxOk) EXCEPT
            !.m_fsr3NotSupportedReason = "Failed to create FidelityFX Vulkan interface",
            !.attempt = "interface"]
  ELSE [setupVulkanInterface(c, ffxOk) EXCEPT
          !.m_supportsFSR3 = TRUE, !.m_initialized = TRUE, !.attempt = "ok"]

\* FSR3Context::FSR3Context(DxvkDevice*)
FSR3Context(device, maxComputeWorkGroupSize, ffxOk) ==
  IF device
    THEN FSR3ContextInitialize(NewFSR3Context(device, maxComputeWorkGroupSize), ffxOk)
    ELSE [NewFSR3Context(device, maxComputeWorkGroupSize) EXCEPT
            !.m_fsr3NotSupportedReason = "Device is null"]

\* shutdown that leaves m_supportsFSR3 set
shutdownKeepSupport(c) ==
  IF ~c.m_initialized THEN c
  ELSE [c EXCEPT !.m_ffxInterface = FALSE, !.m_initialized = FALSE]

\* the context after FSR3Context::shutdown
shutdown(c) ==
  IF ~c.m_initialized THEN c
  ELSE [c EXCEPT !.m_ffxInterface = FALSE, !.m_initialized = FALSE, !.m_supportsFSR3 = FALSE]

\* FSR3Context::shutdown called on the context
FSR3ContextShutdown ==
  /\ fsr3Context.calls < MaxCalls
  /\ fsr3Context' = [shutdown(fsr3Context) EXCEPT !.lastOp = "shutdown", !.calls = @ + 1]
  /\ UNCHANGED <<hashVars, dd, hp, bb, fsr, upscalerContext, deviceFilter>>

\* FSR3Context::createFSR3UpscalerContext called on the context
FSR3ContextCreateUpscaler(ffxOk) ==
  /\ fsr3Context.calls < MaxCalls
  /\ LET c == IF ~fsr3Context.m_initialized
                THEN FSR3ContextInitialize(fsr3Context, ffxOk)
                ELSE [fsr3Context EXCEPT !.attempt = "none"]
         returned == IF ~fsr3Context.m_initialized /\ c.attempt \notin {"already", "ok"}
                       THEN "nullptr"
                     ELSE IF ~c.m_supportsFSR3 THEN "nullptr"
                     ELSE "context"
     IN  fsr3Context' = [c EXCEPT !.returned = returned,
                                  !.lastOp = "createFSR3UpscalerContext",
                                  !.calls = @ + 1]
  /\ UNCHANGED <<hashVars, dd, hp, bb, fsr, upscalerContext, deviceFilter>>

\* ------------------------------------------------------------------------
\* DxvkDeviceFilter (dxvk_device_filter.cpp)
\* ------------------------------------------------------------------------
\* VK_MAKE_VERSION of the Vulkan headers: major << 22 | minor << 12 | patch
VK_MAKE_VERSION(major, minor, patch) == major * 2^22 + minor * 2^12 + patch

DxvkDeviceFilterFlags == {"MatchDeviceName", "SkipCpuDevices"}

\* device names and values of DXVK_FILTER_DEVICE_NAME: the strings over two
\* characters up to MaxNameLen long
DeviceNames == UNION {[1..n -> {"a", "b"}] : n \in 0..MaxNameLen}

ApiVersions ==
  {VK_MAKE_VERSION(1, 0, 0), VK_MAKE_VERSION(1, 0, 68), VK_MAKE_VERSION(1, 1, 0),
   VK_MAKE_VERSION(1, 3, 0), VK_MAKE_VERSION(2, 0, 0)}

DeviceTypes == {"CPU", "DISCRETE_GPU", "INTEGRATED_GPU"}

VendorIDs == {"AMD", "NVIDIA", "INTEL"}

\* the VkPhysicalDeviceProperties handed to testAdapter
AdapterProperties ==
  [apiVersion : ApiVersions, deviceType : DeviceTypes, deviceName : DeviceNames,
   vendorID : VendorIDs]

\* std::string::npos, the value that is no position
npos == 0 - 1

\* std::string::find: the first position (from 0) at which s occurs in str
find(str, s) ==
  LET positions == {i \in 0..(Len(str) - Len(s)) : SubSeq(str, i + 1, i + Len(s)) = s}
  IN  IF positions = {} THEN npos
      ELSE CHOOSE i \in positions : \A j \in positions : i <= j

\* the filter after DxvkDeviceFilter::DxvkDeviceFilter, env being the value
\* of DXVK_FILTER_DEVICE_NAME; environment, properties, result and lastOp
\* record what it was made from and last asked
DxvkDeviceFilter(flags, env) ==
  [m_flags |-> IF Len(env) # 0 THEN flags \cup {"MatchDeviceName"} ELSE flags,
   m_matchDeviceName |-> env,
   environment |-> env,
   properties |-> [apiVersion |-> 0, deviceType |-> "OTHER", deviceName |-> <<>>,
                   vendorID |-> "NONE"],
   result |-> FALSE,
   lastOp |-> "constructor"]

\* the filter of the specifications that test no adapter
IdleFilter == DxvkDeviceFilter({}, <<>>)

\* testAdapter turning every NVIDIA adapter down
testAdapterSkipNvidia(filter, properties) ==
  IF properties.apiVersion < VK_MAKE_VERSION(1, 1, 0) THEN FALSE
  ELSE IF properties.vendorID = "NVIDIA" THEN FALSE
  ELSE IF "SkipCpuDevices" \in filter.m_flags /\ properties.deviceType = "CPU" THEN FALSE
  ELSE IF /\ "MatchDeviceName" \in filter.m_flags
          /\ find(properties.deviceName, filter.m_matchDeviceName) = npos THEN FALSE
  ELSE TRUE

\* DxvkDeviceFilter::testAdapter
testAdapter(filter, properties) ==
  IF properties.apiVersion < VK_MAKE_VERSION(1, 1, 0) THEN FALSE
  ELSE IF "SkipCpuDevices" \in filter.m_flags /\ properties.deviceType = "CPU" THEN FALSE
  ELSE IF /\ "MatchDeviceName" \in filter.m_flags
          /\ find(properties.deviceName, filter.m_matchDeviceName) = npos THEN FALSE
  ELSE TRUE

\* testAdapter called on the filter; it is a const member function, the
\* filter is the same for every adapter, and one adapter is followed
TestAdapter(properties) ==
  /\ deviceFilter.lastOp = "constructor"
  /\ deviceFilter' = [deviceFilter EXCEPT
                        !.properties = properties,
                        !.result = testAdapter(deviceFilter, properties),
                        !.lastOp = "testAdapter"]
  /\ UNCHANGED <<hashVars, dd, hp, bb, fsr, upscalerContext, fsr3Context>>

\* no call has been made on the three objects above
IdleObjects ==
  /\ upscalerContext = IdleUpscaler
  /\ fsr3Context = IdleFSR3Context
  /\ deviceFilter = IdleFilter

\* ------------------------------------------------------------------------
\* The concurrent specification
\* ------------------------------------------------------------------------
\* interleaved vertex data: vertex i is the byte 5 + i followed by padding
VertexImage == [k \in 1..(2 * (MaxIndexValue + MaxVertexCount + 1)) |->
                  IF k % 2 = 1 THEN 5 + (k \div 2) ELSE 9]

\* A holds the vertex data; B holds the indices 1, 0 as uint16 and 1, 1 as uint32
InitialMemory == [b \in Buffers |-> IF b = "A" THEN VertexImage
                                               ELSE <<1, 0, 0, 0, 1, 0, 0, 0>>]

\* the rules enumerated: every component, and a rule without VertexPosition
\* that selects one legacy position hash and the descriptor
HashRules ==
  { HashComponents,
    {"Indices", "LegacyPositions0", "GeometryDescriptor"} }

RECURSIVE SeqsUpTo(_, _)
\* all sequences over S of length at most n
SeqsUpTo(S, n) ==
  IF n = 0 THEN {<<>>}
  ELSE LET shorter == SeqsUpTo(S, n - 1)
       IN  shorter \cup {Append(s, x) : s \in {q \in shorter : Len(q) = n - 1}, x \in S}

\* maxIndexValue as computeHash's callers pass it: a tight bound, or
\* 2^32 - 1 (vertexCount - 1 of an empty draw)
MaxIndexValues == {U32(m) : m \in 0..MaxIndexValue} \cup {UINT32_MAX}

DedupIdle == [pc |-> "idle", indices |-> <<>>, maxIndexValue |-> U32(0), ndebug |-> TRUE, out |-> <<>>]

\* the calls enumerated: every stream within its declared maximum
DedupInputs ==
  {d \in {[pc |-> "call", indices |-> s, maxIndexValue |-> m, ndebug |-> nd, out |-> <<>>] :
            s \in SeqsUpTo(0..MaxIndexValue, MaxIndexCount),
            m \in MaxIndexValues,
            nd \in BOOLEAN} :
     \A i \in 1..Len(d.indices) : U32Le(U32(d.indices[i]), d.maxIndexValue)}

PairIdle == [pc |-> "idle"]

\* every call idle, every buffer held by the application alone
IdleCalls ==
  /\ mem = InitialMemory
  /\ refs = [b \in Buffers |-> 1]
  /\ pins = [b \in Buffers |-> 0]
  /\ appRef = [b \in Buffers |-> TRUE]
  /\ pc = [t \in Tasks |-> "idle"]
  /\ geo = [t \in Tasks |-> NoGeometry]
  /\ closure = [t \in Tasks |-> NoClosure]
  /\ uniqueIndices = [t \in Tasks |-> <<>>]
  /\ hashes = [t \in Tasks |-> EmptyHashes]
  /\ combined = [t \in Tasks |-> kEmptyHash]
  /\ runner = [t \in Tasks |-> NULL]
  /\ ghost = [t \in Tasks |-> NoGhost]

Init ==
  /\ hashRule \in HashRules
  /\ ndebug \in BOOLEAN
  /\ vsCapture \in BOOLEAN
  /\ IdleCalls
  /\ dd = DedupIdle
  /\ hp = PairIdle
  /\ bb = AabbIdle
  /\ fsr = IdleFSR3
  /\ IdleObjects

Next ==
  \/ \E t \in Tasks, g \in Geometries : computeHashAcquire(t, g)
  \/ \E t \in Tasks : computeHashSchedule(t)
  \/ \E w \in Workers, t \in Tasks : WorkerPick(w, t)
  \/ \E t \in Tasks : WorkerIndexHash(t)
  \/ \E t \in Tasks : WorkerIndexRelease(t)
  \/ \E t \in Tasks : WorkerVertexHash(t)
  \/ \E t \in Tasks : WorkerVertexRelease(t)
  \/ \E t \in Tasks : WorkerFinish(t)
  \/ DropAppRefs
  \/ \E b \in Buffers : Recycle(b)

Spec == Init /\ [][Next]_vars

\* the draws whose bounding box is asked for
BoxGeometries ==
  { BaseGeometry,
    [BaseGeometry EXCEPT !.positionBuffer = NoBuffer],
    [BaseGeometry EXCEPT !.vertexCount = 0] }

\* one computeHash call and one computeAxisAlignedBoundingBox call, made in
\* either order on the submission thread, their closures on the same workers
NextBox ==
  \/ \E g \in Geometries : computeHashAcquire(1, g)
  \/ computeHashSchedule(1)
  \/ \E w \in Workers : WorkerPick(w, 1)
  \/ WorkerIndexHash(1)
  \/ WorkerIndexRelease(1)
  \/ WorkerVertexHash(1)
  \/ WorkerVertexRelease(1)
  \/ WorkerFinish(1)
  \/ \E g \in BoxGeometries, needs \in BOOLEAN : computeAabbIncRef(g, needs)
  \/ computeAabbSchedule
  \/ \E w \in Workers : AabbPick(w)
  \/ AabbReduce
  \/ AabbDecRef
  \/ DropAppRefs
  \/ \E b \in Buffers : Recycle(b)

SpecBox == Init /\ [][NextBox]_vars

\* ------------------------------------------------------------------------
\* Properties of the concurrent specification
\* ------------------------------------------------------------------------
\* C1: once a scheduled task has completed, each vertex region's buffer was
\* released and decRef'd by the closure as often as computeHash acquired and
\* incRef'd it, for every vertex count and stride
C1_RegionPinsBalanced ==
  \A t \in Tasks : pc[t] = "done" =>
    \A r \in VertexRegions : ghost[t].rel[r] = ghost[t].acq[r]

\* C2: once a scheduled task has completed, the index buffer was released and
\* decRef'd by the closure as often as computeHash acquired and incRef'd it,
\* whatever the presence of the buffer object and the index stride
C2_IndexPinsBalanced ==
  \A t \in Tasks : pc[t] = "done" => ghost[t].rel["Index"] = ghost[t].acq["Index"]

\* C3: acquires (with their incRef) are made by the submission thread before
\* the task is handed to the scheduler; releases (with their decRef) are made
\* by the worker running the closure, after the hand-off
C3_PinOnSubmitReleaseOnWorker ==
  \A t \in Tasks :
    /\ ghost[t].acqBy \subseteq {"submit"}
    /\ ghost[t].acqAfterHandOff = 0
    /\ ghost[t].relBy \subseteq Workers \cap {runner[t]}
    /\ ~HandedOff(t) => \A s \in Slots : ghost[t].rel[s] = 0
    /\ \A s \in Slots : ghost[t].rel[s] <= ghost[t].acq[s]

\* a completed indexed task whose three references were pinned and unpinned
C3_Witness ==
  \E t \in Tasks :
    /\ pc[t] = "done"
    /\ \A s \in Slots : ghost[t].acq[s] = 1 /\ ghost[t].rel[s] = 1

\* C4: a closure reads mapped memory of a buffer only while an acquire made
\* for that task is outstanding on the buffer
C4_ReadsArePinned == \A t \in Tasks : ghost[t].unpinnedReads = 0

\* a completed task that read index data and both vertex regions
C4_Witness ==
  \E t \in Tasks :
    /\ pc[t] = "done"
    /\ closure[t].indexStride \in IndexedStrides /\ closure[t].indexCount > 0
    /\ hashes[t]["Indices"] # kEmptyHash
    /\ hashes[t]["VertexPosition"] # kEmptyHash
    /\ hashes[t]["VertexTexcoord"] # kEmptyHash
    /\ ghost[t].unpinnedReads = 0

\* the component hashes the closure computes over given memory contents, with
\* the deduplicated vector it got
ClosureHashes(c, memory, rule, unique) ==
  LET T == c.indexStride
      bytes == IF c.pIndexData = NULL THEN <<>> ELSE memory[c.pIndexData]
      indices == IF c.pIndexData = NULL THEN <<>> ELSE IndexData(bytes, c.indexCount, T)
  IN  IF T \in IndexedStrides
        THEN VertexHashes(IndexHashes(StoredMetadata(c), indices, bytes, T, rule),
                          c.vertexRegions, unique, memory, rule)
        ELSE VertexHashes(StoredMetadata(c), c.vertexRegions, <<>>, memory, rule)

\* the index stream a closure reads from given memory contents
IndicesOf(c, memory) ==
  IF c.pIndexData = NULL THEN <<>>
  ELSE IndexData(memory[c.pIndexData], c.indexCount, c.indexStride)

ExpectedHashes(c, memory, rule) ==
  ClosureHashes(c, memory, rule, deduplicateSortIndices(IndicesOf(c, memory), c.maxIndexValue))

\* what a call that did not deliver leaves behind
NoResult(status) ==
  [status |-> status, hashes |-> EmptyHashes, combined |-> kEmptyHash,
   unique |-> <<>>, dedupRuns |-> 0, indexReads |-> 0]

\* one computeHash call and its closure run to the end with nothing else
\* going on: the invalid Future, the death of the process, or the hashes
RunAlone(g, memory, rule, vs, nd) ==
  LET c == MetadataHashes(CapturedBy(g), g, rule, vs)
      T == c.indexStride
      indices == IndicesOf(c, memory)
      finished(unique, runs) ==
        LET h == ClosureHashes(c, memory, rule, unique)
        IN  IF h["VertexPosition"] = kEmptyHash /\ ~nd
              THEN NoResult("aborted")
              ELSE [status |-> "delivered", hashes |-> h, combined |-> precombine(h),
                    unique |-> unique, dedupRuns |-> runs,
                    indexReads |-> runs * c.indexCount]
  IN  IF ~getVertexRegion(g.positionBuffer, g.vertexCount).ok THEN {NoResult("invalid")}
      ELSE IF T \notin IndexedStrides THEN {finished(<<>>, 0)}
      ELSE IF ~(c.indexCount > 0 /\ c.indexBufferRef # NULL) /\ ~nd THEN {NoResult("aborted")}
      ELSE IF c.pIndexData = NULL THEN {NoResult("aborted")}
      ELSE {IF o.status = "abort" THEN NoResult("aborted") ELSE finished(o.out, 1) :
            o \in DedupOutcomes(indices, c.maxIndexValue, nd)}

\* C5: from the hand-off until the closure's decRef every captured buffer has
\* a reference count of at least 1, whatever the application drops meanwhile,
\* and the hashes delivered are those of the bytes present at submission
C5_PinnedUntilReleased ==
  \A t \in Tasks :
    /\ HandedOff(t) =>
         \A s \in Slots :
           (SlotRef(closure[t], s) # NULL /\ ghost[t].rel[s] = 0)
             => refs[SlotRef(closure[t], s)] >= 1
    /\ pc[t] = "done" =>
         /\ hashes[t] = ExpectedHashes(closure[t], ghost[t].memAtSubmit, hashRule)
         /\ combined[t] = precombine(hashes[t])

\* a closure is reading while the application holds none of its buffers any more
C5_Witness ==
  \E t \in Tasks :
    /\ pc[t] \in {"indexHash", "vertexHash"}
    /\ BuffersOf(geo[t]) = Buffers
    /\ \A b \in Buffers : ~appRef[b] /\ refs[b] >= 1

\* C6: with an undefined position stream computeHash returns the invalid
\* Future at once: nothing is scheduled then or later, and no pin count or
\* reference count changes
C6_UndefinedPositionIsInvalid ==
  [][\A t \in Tasks :
       /\ (pc[t] = "idle" /\ pc'[t] # "idle" /\ ~defined(geo'[t].positionBuffer))
            => /\ pc'[t] = "invalid"
               /\ pins' = pins /\ refs' = refs
               /\ ghost'[t] = NoGhost /\ closure'[t] = NoClosure
       /\ pc[t] = "invalid" => pc'[t] = "invalid"]_vars

\* a call that returned the invalid Future
C6_Witness ==
  \E t \in Tasks : pc[t] = "invalid" /\ ~defined(geo[t].positionBuffer)

\* C7: a vertex region of size 0 carries no buffer reference, and nothing is
\* acquired, incRef'd, released or decRef'd for it
C7_EmptyRegionHasNoRef ==
  \A t \in Tasks : \A r \in VertexRegions :
    closure[t].vertexRegions[r].size = 0 =>
      /\ closure[t].vertexRegions[r].ref = NULL
      /\ ghost[t].acq[r] = 0 /\ ghost[t].rel[r] = 0

\* the bytes at submission of the buffers the call's geometry refers to
SubmittedBytes(t) == [b \in BuffersOf(geo[t]) |-> ghost[t].memAtSubmit[b]]

\* C10: two completed calls with the same geometry, the same buffer bytes at
\* submission and the same rule deliver the same component hashes and the
\* same combined hash
C10_SameInputSameHashes ==
  \A t \in Tasks, u \in Tasks :
    (/\ pc[t] = "done" /\ pc[u] = "done"
     /\ geo[t] = geo[u]
     /\ SubmittedBytes(t) = SubmittedBytes(u)
     /\ ghost[t].ruleAtSubmit = ghost[u].ruleAtSubmit)
    => hashes[t] = hashes[u] /\ combined[t] = combined[u]

\* two completed calls on the same indexed geometry, run by different workers
C10_Witness ==
  \E t \in Tasks, u \in Tasks :
    /\ t # u /\ pc[t] = "done" /\ pc[u] = "done"
    /\ geo[t] = geo[u] /\ geo[t].indexBuffer.stride \in IndexedStrides
    /\ runner[t] # runner[u]
    /\ hashes[t]["VertexPosition"] # kEmptyHash
    /\ hashes[t] = hashes[u]

\* ------------------------------------------------------------------------
\* deduplicateSortIndices called on its own
\* ------------------------------------------------------------------------
InitDedup ==
  /\ dd \in DedupInputs
  /\ hashRule = HashComponents
  /\ ndebug = dd.ndebug
  /\ vsCapture = FALSE
  /\ IdleCalls
  /\ hp = PairIdle
  /\ bb = AabbIdle
  /\ fsr = IdleFSR3
  /\ IdleObjects

DedupCall ==
  /\ dd.pc = "call"
  /\ \E o \in DedupOutcomes(dd.indices, dd.maxIndexValue, dd.ndebug) :
       dd' = [dd EXCEPT !.pc = o.status, !.out = o.out]
  /\ UNCHANGED <<hashVars, hp, bb, fsr, objVars>>

NextDedup == DedupCall

SpecDedup == InitDedup /\ [][NextDedup]_vars

\* ------------------------------------------------------------------------
\* Properties of deduplicateSortIndices
\* ------------------------------------------------------------------------
StrictlyAscending(s) == \A i \in 1..(Len(s) - 1) : s[i] < s[i + 1]

Values(s) == {s[i] : i \in 1..Len(s)}

\* C8: for every stream whose values lie in [0, maxIndexValue] the call
\* returns a strictly ascending sequence of at most maxIndexValue + 1 elements
\* whose values are exactly the values of the stream
C8_DedupSortedUniqueExact ==
  dd.pc \in {"returned", "abort"} =>
    /\ dd.pc = "returned"
    /\ StrictlyAscending(dd.out)
    /\ Values(dd.out) = Values(dd.indices)
    /\ dd.out # <<>> => U32Le(U32(Len(dd.out) - 1), dd.maxIndexValue)

\* ------------------------------------------------------------------------
\* Two draws that differ in their index buffer only, hashed side by side
\* ------------------------------------------------------------------------
Count(s, v) == Cardinality({i \in 1..Len(s) : s[i] = v})

SameMultiset(s1, s2) ==
  Len(s1) = Len(s2) /\ \A v \in 0..MaxIndexValue : Count(s1, v) = Count(s2, v)

RECURSIVE EncodeIndices(_, _, _)
\* the bytes of an index stream of T-byte elements, little endian
EncodeIndices(s, T, i) ==
  IF i > Len(s) THEN <<>>
  ELSE [k \in 1..T |-> IF k = 1 THEN s[i] % 256 ELSE IF k = 2 THEN s[i] \div 256 ELSE 0]
       \o EncodeIndices(s, T, i + 1)

\* the indexed draw over the vertex data of A with n indices of T bytes in B
PairGeometry(T, n, m) ==
  [BaseGeometry EXCEPT
     !.indexBuffer = [buffer |-> "B", stride |-> T, elementSize |-> T],
     !.indexCount = n,
     !.vertexCount = MaxIndexValue + 1,
     !.maxIndexValue = m]

PairMemory(s, T) == [b \in Buffers |-> IF b = "A" THEN VertexImage ELSE EncodeIndices(s, T, 1)]

PairClosure(h) ==
  LET g == PairGeometry(h.T, Len(h.first), h.maxIndexValue)
  IN  MetadataHashes(CapturedBy(g), g, h.rule, FALSE)

NotRun == [status |-> "none", hashes |-> EmptyHashes]

\* the orders in which the indices of a stream can be stored
Reorderings(s) == {p \in [1..Len(s) -> 0..MaxIndexValue] : SameMultiset(s, p)}

\* what the closure delivers for one stream: the hashes, or the process dies
\* in deduplicateSortIndices
PairResults(h, s) ==
  LET c == PairClosure(h)
      memory == PairMemory(s, h.T)
  IN  {IF o.status = "abort"
         THEN [status |-> "aborted", hashes |-> EmptyHashes]
         ELSE [status |-> "delivered", hashes |-> ClosureHashes(c, memory, h.rule, o.out)] :
       o \in DedupOutcomes(IndicesOf(c, memory), h.maxIndexValue, ndebug)}

InitPair ==
  /\ hp = PairIdle
  /\ hashRule = HashComponents
  /\ ndebug = TRUE
  /\ vsCapture = FALSE
  /\ IdleCalls
  /\ dd = DedupIdle
  /\ bb = AabbIdle
  /\ fsr = IdleFSR3
  /\ IdleObjects

\* the application draws the same vertices twice, the second time with the
\* indices stored in another order
DrawPair ==
  /\ hp.pc = "idle"
  /\ \E T \in IndexedStrides, s1 \in SeqsUpTo(0..MaxIndexValue, MaxPairCount) \ {<<>>},
        m \in {U32(MaxIndexValue), UINT32_MAX}, r \in HashRules :
       \E s2 \in Reorderings(s1) :
         hp' = [pc |-> "start", T |-> T, first |-> s1, second |-> s2, maxIndexValue |-> m,
                rule |-> r, resFirst |-> NotRun, resSecond |-> NotRun]
  /\ UNCHANGED <<hashVars, dd, bb, fsr, objVars>>

HashFirst ==
  /\ hp.pc = "start"
  /\ \E res \in PairResults(hp, hp.first) : hp' = [hp EXCEPT !.pc = "first", !.resFirst = res]
  /\ UNCHANGED <<hashVars, dd, bb, fsr, objVars>>

HashSecond ==
  /\ hp.pc = "first"
  /\ \E res \in PairResults(hp, hp.second) : hp' = [hp EXCEPT !.pc = "both", !.resSecond = res]
  /\ UNCHANGED <<hashVars, dd, bb, fsr, objVars>>

NextPair == DrawPair \/ HashFirst \/ HashSecond

SpecPair == InitPair /\ [][NextPair]_vars

BothDelivered ==
  hp.pc = "both" /\ hp.resFirst.status = "delivered" /\ hp.resSecond.status = "delivered"

C20_InterleavingIsInvisible ==
  \A t \in Tasks :
    pc[t] = "done" =>
      \E res \in RunAlone(geo[t], ghost[t].memAtSubmit, ghost[t].ruleAtSubmit, vsCapture, ndebug) :
        /\ res.status = "delivered"
        /\ res.hashes = hashes[t]
        /\ res.combined = combined[t]

\* two different draws over the same vertex buffer in flight together, the
\* later one completed first
C20_Witness ==
  /\ pc[2] = "done" /\ pc[1] \in ClosurePcs
  /\ geo[1] # geo[2]
  /\ geo[1].positionBuffer.buffer = geo[2].positionBuffer.buffer
  /\ hashes[2]["VertexPosition"] # kEmptyHash

\* ------------------------------------------------------------------------
\* The components of a delivered GeometryHashes
\* ------------------------------------------------------------------------
\* C12: every delivered GeometryHashes has a VertexPosition hash other than
\* the empty-hash sentinel, whatever the rule and the geometry
C12_PositionHashNeverEmpty ==
  \A t \in Tasks : pc[t] = "done" => hashes[t]["VertexPosition"] # kEmptyHash

\* C16: with a defined position stream and an undefined texcoord stream the
\* call is scheduled, the texcoord region stays zeroed (no pointer to read
\* through), nothing is acquired or released for it, and the VertexTexcoord
\* hash is the empty-hash sentinel
C16_UndefinedTexcoordIsSkipped ==
  \A t \in Tasks :
    (pc[t] # "idle" /\ defined(geo[t].positionBuffer) /\ ~defined(geo[t].texcoordBuffer))
      => /\ pc[t] # "invalid"
         /\ pc[t] # "schedule" => HandedOff(t)
         /\ closure[t].vertexRegions["Texcoord"] = ZeroQuery
         /\ "Texcoord" \notin AcquiredSlots(geo[t]) \cup IncRefSlots(geo[t])
         /\ ghost[t].acq["Texcoord"] = 0 /\ ghost[t].rel["Texcoord"] = 0
         /\ hashes[t]["VertexTexcoord"] = kEmptyHash

\* a completed call without texcoords under a rule that selects VertexTexcoord
C16_Witness ==
  \E t \in Tasks :
    /\ pc[t] = "done"
    /\ ~defined(geo[t].texcoordBuffer)
    /\ "VertexTexcoord" \in hashRule
    /\ hashes[t]["VertexPosition"] # kEmptyHash
    /\ hashes[t]["VertexTexcoord"] = kEmptyHash

\* C17: in a delivered GeometryHashes every component the rule does not
\* select holds the empty-hash sentinel
C17_UnselectedComponentsAreEmpty ==
  \A t \in Tasks :
    pc[t] = "done" =>
      \A component \in HashComponents \ ghost[t].ruleAtSubmit :
        hashes[t][component] = kEmptyHash

\* ------------------------------------------------------------------------
\* Two calls that differ in one respect, each run alone
\* ------------------------------------------------------------------------
\* a second set of vertex bytes
VertexImages == {VertexImage, [k \in DOMAIN VertexImage |-> (7 * k) % 11]}

\* the index stream 0, 1, ..., n - 1
Identity(n) == [i \in 1..n |-> i - 1]

\* vertexCount - 1 in uint32_t
TightMax(n) == IF n = 0 THEN UINT32_MAX ELSE U32(n - 1)

\* a draw of n vertices of A without an index buffer
NonIndexedDraw(n, m) ==
  [BaseGeometry EXCEPT
     !.indexBuffer = NoBuffer, !.indexCount = 0, !.vertexCount = n, !.maxIndexValue = m]

\* a draw of n vertices of A through count indices of T bytes in B
IndexedDraw(T, n, count, m) ==
  [BaseGeometry EXCEPT
     !.indexBuffer = [buffer |-> "B", stride |-> T, elementSize |-> T],
     !.indexCount = count, !.vertexCount = n, !.maxIndexValue = m]

\* buffer A holding the vertex bytes and buffer B the index stream
DrawMemory(image, s, T) ==
  [b \in Buffers |-> IF b = "A" THEN image ELSE EncodeIndices(s, T, 1)]

VariantCall(g, memory, rule) == [g |-> g, memory |-> memory, rule |-> rule]

VariantDraw(kind, first, second, nd) ==
  [pc |-> "start", kind |-> kind, first |-> first, second |-> second, nd |-> nd,
   resFirst |-> NoResult("none"), resSecond |-> NoResult("none")]

CurrentComponents == {"VertexPosition", "VertexTexcoord", "Indices"}

LegacyComponents == {"LegacyIndices", "LegacyPositions0", "LegacyPositions1"}

\* the same vertices drawn without indices and through the indices 0 .. n-1
DrawIdentity ==
  /\ hp.pc = "idle"
  /\ \E n \in 0..(MaxIndexValue + 1), image \in VertexImages, T \in IndexedStrides,
        rule \in HashRules, nd \in BOOLEAN :
       \E m \in {TightMax(n), UINT32_MAX} :
         hp' = VariantDraw("identity",
                 VariantCall(NonIndexedDraw(n, m), DrawMemory(image, Identity(n), T), rule),
                 VariantCall(IndexedDraw(T, n, n, m), DrawMemory(image, Identity(n), T), rule),
                 nd)
  /\ UNCHANGED <<hashVars, dd, bb, fsr, objVars>>

\* the bytes of vertex v from offset elementSize on, and all bytes of the
\* vertices no index of s refers to (positions in the mapped memory, from 1)
SpareBytes(s, g) ==
  LET stride == g.positionBuffer.stride
      size == g.positionBuffer.elementSize
  IN  {k \in 1..(stride * g.vertexCount) :
         \/ (k - 1) % stride >= size
         \/ \A i \in 1..Len(s) : s[i] # (k - 1) \div stride}

\* the same indexed draw over vertex bytes that differ in one spare byte
DrawSpareByte ==
  /\ hp.pc = "idle"
  /\ \E s \in SeqsUpTo(0..MaxIndexValue, MaxPairCount) \ {<<>>}, T \in IndexedStrides,
        m \in {U32(MaxIndexValue), UINT32_MAX}, rule \in HashRules :
       LET g == IndexedDraw(T, MaxIndexValue + 1, Len(s), m)
       IN  \E k \in SpareBytes(s, g) :
             hp' = VariantDraw("spare",
                     VariantCall(g, DrawMemory(VertexImage, s, T), rule),
                     VariantCall(g, DrawMemory([VertexImage EXCEPT ![k] = 77], s, T), rule),
                     TRUE)
  /\ UNCHANGED <<hashVars, dd, bb, fsr, objVars>>

\* the same draw under two rules that differ in their legacy components only,
\* or in their current components only
DrawRules ==
  /\ hp.pc = "idle"
  /\ \E g \in {BaseGeometry, NonIndexedDraw(MaxVertexCount, TightMax(MaxVertexCount)),
               IndexedDraw(4, MaxVertexCount, 2, TightMax(MaxVertexCount))},
        r1 \in SUBSET (CurrentComponents \cup LegacyComponents),
        side \in {CurrentComponents, LegacyComponents}, nd \in BOOLEAN :
       \E other \in SUBSET side :
         hp' = VariantDraw("rules",
                 VariantCall(g, InitialMemory, r1),
                 VariantCall(g, InitialMemory, (r1 \ side) \cup other),
                 nd)
  /\ UNCHANGED <<hashVars, dd, bb, fsr, objVars>>

RunFirst ==
  /\ hp.pc = "start"
  /\ \E res \in RunAlone(hp.first.g, hp.first.memory, hp.first.rule, FALSE, hp.nd) :
       hp' = [hp EXCEPT !.pc = "first", !.resFirst = res]
  /\ UNCHANGED <<hashVars, dd, bb, fsr, objVars>>

RunSecond ==
  /\ hp.pc = "first"
  /\ \E res \in RunAlone(hp.second.g, hp.second.memory, hp.second.rule, FALSE, hp.nd) :
       hp' = [hp EXCEPT !.pc = "both", !.resSecond = res]
  /\ UNCHANGED <<hashVars, dd, bb, fsr, objVars>>

NextVariant == DrawIdentity \/ DrawSpareByte \/ DrawRules \/ RunFirst \/ RunSecond

SpecVariant == InitPair /\ [][NextVariant]_vars

\* both calls of a draw of the given kind delivered their hashes
BothRan(kind) ==
  /\ hp.pc = "both" /\ hp.kind = kind
  /\ hp.resFirst.status = "delivered" /\ hp.resSecond.status = "delivered"

\* C11: a draw without indices gets the VertexPosition and VertexTexcoord
\* hashes of the draw of the same vertices through the indices 0 .. n-1, and
\* for it no deduplication runs and no index element is read
C11_NonIndexedMatchesIdentity ==
  BothRan("identity") =>
    /\ hp.resFirst.hashes["VertexPosition"] = hp.resSecond.hashes["VertexPosition"]
    /\ hp.resFirst.hashes["VertexTexcoord"] = hp.resSecond.hashes["VertexTexcoord"]
    /\ hp.resFirst.dedupRuns = 0 /\ hp.resFirst.indexReads = 0
    /\ hp.resFirst.unique = <<>>

\* three vertices drawn both ways, the indexed draw deduplicated to 0, 1, 2
C11_Witness ==
  /\ BothRan("identity")
  /\ hp.first.g.vertexCount = 3
  /\ hp.resSecond.unique = <<0, 1, 2>> /\ hp.resSecond.dedupRuns = 1
  /\ hp.resFirst.hashes["VertexPosition"] # kEmptyHash
  /\ hp.resFirst.hashes["VertexTexcoord"] # kEmptyHash

\* C18: changing a byte of a vertex no index refers to, or a byte between
\* elementSize and stride of any vertex, leaves the VertexPosition and
\* VertexTexcoord hashes of an indexed draw unchanged
C18_SpareBytesDoNotCount ==
  BothRan("spare") =>
    /\ hp.resFirst.hashes["VertexPosition"] = hp.resSecond.hashes["VertexPosition"]
    /\ hp.resFirst.hashes["VertexTexcoord"] = hp.resSecond.hashes["VertexTexcoord"]

\* C19: the VertexPosition, VertexTexcoord and Indices hashes are the same
\* under two rules that differ in legacy components only, the legacy hashes
\* are the same under two rules that differ in current components only, and
\* a selected legacy position hash is that of the whole position region
C19_CurrentAndLegacyIndependent ==
  BothRan("rules") =>
    LET r1 == hp.first.rule
        r2 == hp.second.rule
        position == ExtractRegions(hp.first.g)["Position"]
        bytes == RegionBytes(position, hp.first.memory)
    IN  /\ r1 \cap CurrentComponents = r2 \cap CurrentComponents =>
             \A c \in CurrentComponents : hp.resFirst.hashes[c] = hp.resSecond.hashes[c]
        /\ r1 \cap LegacyComponents = r2 \cap LegacyComponents =>
             \A c \in LegacyComponents : hp.resFirst.hashes[c] = hp.resSecond.hashes[c]
        /\ "LegacyPositions0" \in r1 =>
             hp.resFirst.hashes["LegacyPositions0"] = hashRegionLegacy0(position, bytes)
        /\ "LegacyPositions1" \in r1 =>
             hp.resFirst.hashes["LegacyPositions1"] = hashRegionLegacy1(position, bytes)

\* an indexed draw hashed with every component and with the current
\* components alone
C19_Witness ==
  /\ BothRan("rules")
  /\ hp.first.g.indexBuffer.stride \in IndexedStrides
  /\ hp.first.rule = CurrentComponents \cup LegacyComponents
  /\ hp.second.rule = CurrentComponents
  /\ \A c \in CurrentComponents : hp.resFirst.hashes[c] # kEmptyHash
  /\ \A c \in LegacyComponents : hp.resFirst.hashes[c] # kEmptyHash

\* ------------------------------------------------------------------------
\* Hashing and bounding box calls together
\* ------------------------------------------------------------------------
CallOver(state) == state \in {"idle", "invalid", "done"}

\* C13: a scheduled closure runs to completion and then every acquire and
\* incRef taken for its task has been given back: once every call made is
\* over, no buffer is pinned and no buffer is referenced by a closure
C13_NothingHeldAfterCompletion ==
  ((\A t \in Tasks : CallOver(pc[t])) /\ CallOver(bb.pc)) =>
    \A b \in Buffers : pins[b] = 0 /\ refs[b] = (IF appRef[b] THEN 1 ELSE 0)

\* C14: Schedule never makes the submission thread wait, whatever is queued
\* or running, and nothing is deduplicated, hashed or reduced before a worker
\* has taken the closure
C14_SubmissionNeverWaits ==
  /\ \A t \in Tasks : (pc[t] = "schedule" /\ ~Crashed) => ENABLED computeHashSchedule(t)
  /\ (bb.pc = "schedule" /\ ~Crashed) => ENABLED computeAabbSchedule
  /\ \A t \in Tasks :
       /\ pc[t] \in {"idle", "invalid", "schedule", "queued"} =>
            /\ hashes[t] = EmptyHashes /\ combined[t] = kEmptyHash
            /\ uniqueIndices[t] = <<>> /\ runner[t] = NULL
       /\ pc[t] \in ClosurePcs => runner[t] \in Workers
  /\ bb.pc \in {"idle", "invalid", "schedule", "queued"} => bb.box = NoBox /\ bb.runner = NULL
  /\ bb.pc \in AabbClosurePcs => bb.runner \in Workers

\* both calls have returned their Future and no worker has taken a closure
C14_Witness ==
  /\ pc[1] = "queued" /\ bb.pc = "queued"
  /\ runner[1] = NULL /\ bb.runner = NULL

\* C15: the position buffer of a bounding box task is acquired and incRef'd
\* before the closure is scheduled, stays pinned while the closure reads it,
\* and is released and decRef'd once when the closure is done, so the box is
\* that of the bytes present at submission
C15_BoxBufferPinnedWhileRead ==
  /\ bb.pc \in {"schedule", "queued"} \cup AabbClosurePcs => bb.acq = 1 /\ bb.incRefs = 1
  /\ bb.unpinnedReads = 0
  /\ bb.pc = "done" =>
       /\ bb.rel = 1 /\ bb.decRefs = 1
       /\ bb.box = BoxOf(bb, bb.memAtSubmit)

\* C21: computeAxisAlignedBoundingBox returns the invalid Future, scheduling
\* no task and taking no reference, when bounding boxes are not needed or the
\* mapped position pointer is null; otherwise it takes exactly one incRef
\* before scheduling and the closure gives back exactly one decRef
C21_OneIncRefOneDecRef ==
  /\ bb.pc # "idle" =>
       (bb.pc = "invalid" <=>
          (~bb.needsMeshBoundingBox \/ mapPtr(bb.geo.positionBuffer) = NULL))
  /\ bb.pc = "invalid" =>
       /\ bb.incRefs = 0 /\ bb.decRefs = 0
       /\ bb.runner = NULL /\ bb.box = NoBox
  /\ bb.pc \in {"schedule", "queued", "reduce", "decRef"} =>
       bb.incRefs = 1 /\ bb.decRefs = 0
  /\ bb.pc = "done" => bb.incRefs = 1 /\ bb.decRefs = 1

\* a bounding box closure has run to its end
C21_Witness ==
  /\ bb.pc = "done" /\ bb.needsMeshBoundingBox
  /\ bb.incRefs = 1 /\ bb.decRefs = 1

\* the coordinates at offsets 0, s, ..., (vertexCount - 1) * s of the bytes read
PositionsRead ==
  { bb.bytesRead[bb.vertexStride * i + 1] : i \in 0..(bb.vertexCount - 1) }

\* C22: for vertexCount >= 1 and stride s the delivered box holds the minimum
\* and the maximum over exactly the vertexCount positions read at offsets
\* 0, s, ..., (vertexCount - 1) * s
C22_BoxIsMinMaxOfPositionsRead ==
  (bb.pc \in {"decRef", "done"} /\ bb.vertexCount >= 1) =>
    /\ bb.box.min \in PositionsRead /\ bb.box.max \in PositionsRead
    /\ \A x \in PositionsRead : bb.box.min <= x /\ x <= bb.box.max

\* a box over two vertices with different positions has been delivered
C22_Witness ==
  /\ bb.pc = "done" /\ bb.vertexCount >= 2
  /\ bb.box.min < bb.box.max

\* ------------------------------------------------------------------------
\* The presence table of deduplicateSortIndices
\* ------------------------------------------------------------------------
\* C25: for every uint32_t maxIndexValue, 2^32 - 1 included, the presence
\* table has exactly maxIndexValue + 1 entries: its size does not wrap, so it
\* is above maxIndexValue and every index up to maxIndexValue has an entry
C25_TableHasMaxPlusOneEntries ==
  dd.pc # "idle" =>
    LET indexRange == IndexRange(dd.maxIndexValue)
    IN  /\ U32Le(dd.maxIndexValue, indexRange)
        /\ indexRange # dd.maxIndexValue
        /\ \A i \in 1..Len(dd.indices) :
             U32Le(U32(dd.indices[i]), dd.maxIndexValue) =>
               ~U32Le(indexRange, U32(dd.indices[i]))

\* the calls enumerated when the stream need not respect its declared maximum
DedupInputsAny ==
  {[pc |-> "call", indices |-> s, maxIndexValue |-> m, ndebug |-> nd, out |-> <<>>] :
     s \in SeqsUpTo(0..MaxIndexValue, MaxIndexCount),
     m \in MaxIndexValues,
     nd \in BOOLEAN}

InitDedupAny ==
  /\ dd \in DedupInputsAny
  /\ hashRule = HashComponents
  /\ ndebug = dd.ndebug
  /\ vsCapture = FALSE
  /\ IdleCalls
  /\ hp = PairIdle
  /\ bb = AabbIdle
  /\ fsr = IdleFSR3
  /\ IdleObjects

SpecDedupAny == InitDedupAny /\ [][NextDedup]_vars

\* C26: deduplicateSortIndices never writes the table outside
\* [0, maxIndexValue]: an index above maxIndexValue is caught by the assertion
\* before the write, so no call given such an index gets past it and returns
C26_ExceedingIndexIsCaught ==
  AssertIndexFails(dd.indices, dd.maxIndexValue) => dd.pc \in {"call", "abort"}

\* ------------------------------------------------------------------------
\* The place of precombine in the closure
\* ------------------------------------------------------------------------
\* C27: precombine runs exactly once per closure, as its last statement:
\* only after the metadata hashes have been stored and the index, vertex and
\* legacy hashes computed, and no component hash is written after it
C27_PrecombineIsLast ==
  [][\A t \in Tasks :
       /\ combined'[t] # combined[t] =>
            /\ pc[t] = "finish" /\ pc'[t] = "done"
            /\ combined[t] = kEmptyHash
            /\ combined'[t] = precombine(hashes'[t])
       /\ (pc[t] = "finish" /\ pc'[t] # "finish") =>
            /\ pc'[t] \in {"done", "aborted"}
            /\ hashes'[t] = hashes[t]
            /\ pc'[t] = "done" => combined'[t] = precombine(hashes[t])
       /\ (pc'[t] = "finish" /\ pc[t] # "finish") =>
            /\ pc[t] = "vertexRelease"
            /\ \A c \in {"GeometryDescriptor", "VertexLayout", "VertexShader"} :
                 hashes[t][c] = StoredMetadata(closure[t])[c]
       /\ (pc'[t] = "vertexRelease" /\ pc[t] # "vertexRelease") => pc[t] = "vertexHash"
       /\ (pc'[t] = "vertexHash" /\ pc[t] # "vertexHash") =>
            IF closure[t].indexStride \in IndexedStrides
              THEN pc[t] = "indexRelease" ELSE pc[t] = "queued"
       /\ (pc'[t] = "indexRelease" /\ pc[t] # "indexRelease") => pc[t] = "indexHash"
       /\ pc[t] = "done" =>
            /\ pc'[t] = "done"
            /\ hashes'[t] = hashes[t] /\ combined'[t] = combined[t]
    ]_vars

\* a closure of an indexed draw has combined its hashes and returned
C27_Witness ==
  \E t \in Tasks :
    /\ pc[t] = "done" /\ closure[t].indexStride \in IndexedStrides
    /\ combined[t] = precombine(hashes[t]) /\ combined[t] # kEmptyHash

\* ------------------------------------------------------------------------
\* The global HashRule changed while a task is in flight
\* ------------------------------------------------------------------------
\* the option rtx.geometryHashGenerationRule is given a new value
SetHashRule(rule) ==
  /\ ~Crashed
  /\ rule # hashRule
  /\ hashRule' = rule
  /\ UNCHANGED <<ndebug, vsCapture, mem, refs, pins, appRef, pc, geo, closure, uniqueIndices, hashes, combined, runner, ghost, dd, hp, bb, fsr, objVars>>

\* one computeHash call and its closure, the option changing at any moment
NextRule ==
  \/ \E g \in Geometries : computeHashAcquire(1, g)
  \/ computeHashSchedule(1)
  \/ \E w \in Workers : WorkerPick(w, 1)
  \/ WorkerIndexHash(1)
  \/ WorkerIndexRelease(1)
  \/ WorkerVertexHash(1)
  \/ WorkerVertexRelease(1)
  \/ WorkerFinish(1)
  \/ \E rule \in HashRules : SetHashRule(rule)

SpecRule == Init /\ [][NextRule]_vars

\* C24: all component decisions of one hashing operation are made against a
\* single value of the global HashRule, even when the rule is modified
\* between submission and execution: the hashes delivered are those of the
\* call run under one rule
C24_OneRulePerOperation ==
  \A t \in Tasks :
    pc[t] = "done" =>
      \E rule \in HashRules :
        \E res \in RunAlone(geo[t], ghost[t].memAtSubmit, rule, vsCapture, ndebug) :
          res.status = "delivered" /\ res.hashes = hashes[t]

\* ------------------------------------------------------------------------
\* Calls on a DxvkFSR3 object
\* ------------------------------------------------------------------------
\* the objects constructed: either revision of rtx_fsr3.cpp, the one with a
\* context over either revision of initialize, on a device with or without
\* FSR3 support
NewFSR3s ==
  {NewFSR3("wrapper", initializeRevision, supportsFSR3, graphicsPreset) :
     initializeRevision \in InitializeRevisions, supportsFSR3 \in BOOLEAN,
     graphicsPreset \in GraphicsPresets}
  \cup {NewFSR3("placeholder", "disabled", FALSE, graphicsPreset) :
           graphicsPreset \in GraphicsPresets}

InitFsr ==
  /\ fsr \in NewFSR3s
  /\ IdleObjects
  /\ hashRule = HashComponents
  /\ ndebug = TRUE
  /\ vsCapture = FALSE
  /\ IdleCalls
  /\ dd = DedupIdle
  /\ hp = PairIdle
  /\ bb = AabbIdle

NextFsr ==
  \/ \E displaySize \in DisplaySizes, profile \in FSR3Profiles : setSetting(displaySize, profile)
  \/ release
  \/ onDestroy
  \/ \E created \in BOOLEAN : dispatch(created)
  \/ \E graphicsPreset \in GraphicsPresets : SetGraphicsPreset(graphicsPreset)

SpecFsr == InitFsr /\ [][NextFsr]_vars

\* C23: after any sequence of setSetting calls getCurrentProfile never
\* returns Auto: it is Invalid before the first state-changing call and the
\* resolved profile afterwards, which for a requested Auto is the result of
\* getAutoProfile, one of UltraPerf, MaxPerf, Balanced, MaxQuality
C23_CurrentProfileIsResolved ==
  /\ getCurrentProfile # Auto
  /\ ~fsr.stateChanging => getCurrentProfile = Invalid
  /\ fsr.stateChanging =>
       IF fsr.mProfile = Auto
         THEN getCurrentProfile \in {UltraPerf, MaxPerf, Balanced, MaxQuality}
         ELSE getCurrentProfile = fsr.mProfile
  /\ (fsr.lastOp = "setSetting" /\ fsr.lastArgs.profile = Auto) =>
       getCurrentProfile = getAutoProfile(fsr.lastArgs.displaySize[1],
                                          fsr.lastArgs.displaySize[2], fsr.graphicsPreset)

\* Auto has been requested for a 1440p display and resolved
C23_Witness ==
  /\ fsr.stateChanging /\ fsr.mProfile = Auto
  /\ fsr.mFSR3OutputSize = <<2560, 1440>>
  /\ getCurrentProfile \in {UltraPerf, MaxPerf, Balanced}

\* the step is a call of the named operation
IsCall(op) == fsr'.lastOp = op /\ fsr'.calls = fsr.calls + 1

\* the profile a setSetting call resolves its argument to
Resolved(args, graphicsPreset) ==
  IF args.profile = Auto
    THEN getAutoProfile(args.displaySize[1], args.displaySize[2], graphicsPreset)
    ELSE args.profile

\* C28: a setSetting call whose resolved profile and display size equal the
\* stored actual profile and output size writes the cached input size to
\* outRenderSize and leaves mProfile, mActualProfile, mInputSize,
\* mFSR3OutputSize and mRecreate unchanged; so two calls in a row with the
\* same arguments yield the same outRenderSize and the second one requests
\* no recreation
C28_UnchangedSettingsAreCached ==
  [][IsCall("setSetting") =>
       /\ (/\ Resolved(fsr'.lastArgs, fsr.graphicsPreset) = fsr.mActualProfile
           /\ fsr'.lastArgs.displaySize = fsr.mFSR3OutputSize) =>
            /\ fsr'.outRenderSize = fsr.mInputSize
            /\ fsr'.mProfile = fsr.mProfile
            /\ fsr'.mActualProfile = fsr.mActualProfile
            /\ fsr'.mInputSize = fsr.mInputSize
            /\ fsr'.mFSR3OutputSize = fsr.mFSR3OutputSize
            /\ fsr'.mRecreate = fsr.mRecreate
       /\ (fsr.lastOp = "setSetting" /\ fsr'.lastArgs = fsr.lastArgs) =>
            /\ fsr'.outRenderSize = fsr.outRenderSize
            /\ fsr'.mRecreate = fsr.mRecreate
    ]_vars

\* a setting that was dispatched has been asked for again: the cached size
\* came back and no recreation is requested
C28_Witness ==
  /\ fsr.lastOp = "setSetting" /\ fsr.dispatched /\ ~fsr.mRecreate
  /\ fsr.mActualProfile = Balanced
  /\ fsr.outRenderSize = fsr.mInputSize /\ fsr.mInputSize # <<0, 0>>

\* C29: when setSetting has changed the actual profile or the display size,
\* or release has been called, the next dispatch calls initializeFSR3 before
\* any evaluateFSR3; a dispatch with no such change since the previous
\* dispatch does not call initializeFSR3; mRecreate is false after every
\* dispatch, whether or not the initialization succeeded
C29_RecreateOnceAfterChange ==
  [][IsCall("dispatch") =>
       /\ fsr.pending =>
            /\ fsr'.trace # <<>>
            /\ Head(fsr'.trace) = "initializeFSR3"
            /\ "initializeFSR3" \notin Values(Tail(fsr'.trace))
       /\ (~fsr.pending /\ fsr.dispatched) => "initializeFSR3" \notin Values(fsr'.trace)
       /\ ~fsr'.mRecreate
    ]_vars

\* a dispatch after a change of settings has initialized, then evaluated
C29_Witness ==
  /\ fsr.lastOp = "dispatch" /\ fsr.stateChanging
  /\ Len(fsr.trace) > 1 /\ Head(fsr.trace) = "initializeFSR3"
  /\ "evaluateFSR3" \in Values(fsr.trace)

C31_InitializeInitializes ==
  (/\ fsr.lastOp = "dispatch" /\ fsr.revision = "wrapper"
   /\ "initializeFSR3" \in Values(fsr.trace)
   /\ fsr.m_fsr3Context # NoUpscalerContext
   /\ ~fsr.ffxError) =>
    /\ isFSR3Initialized(fsr.m_fsr3Context)
    /\ "evaluateFSR3" \in Values(fsr.trace)

\* the step is a setSetting call that does not return the cached size
ChangesState ==
  /\ IsCall("setSetting")
  /\ ~(/\ Resolved(fsr'.lastArgs, fsr.graphicsPreset) = fsr.mActualProfile
       /\ fsr'.lastArgs.displaySize = fsr.mFSR3OutputSize)

\* the optimal render size the call has queried from the context it has, or
\* computed from the hardcoded ratio without one
OptimalRenderSize(object) ==
  IF object.revision = "wrapper" /\ object.m_fsr3Context # NoUpscalerContext
    THEN queryOptimalSettings(object.m_fsr3Context, object.lastArgs.displaySize,
                              profileToQualityMode(object.mActualProfile))
    ELSE <<Scaled(object.lastArgs.displaySize[1], scalingRatio(object.mActualProfile)),
           Scaled(object.lastArgs.displaySize[2], scalingRatio(object.mActualProfile))>>

\* C32: after a state-changing setSetting call with a resolved profile other
\* than FullResolution the stored input size is a multiple of 32 in both
\* dimensions and is the optimal render size, queried or computed, rounded up
\* to 32, whether or not an upscaler context could be created
C32_InputSizeAligned ==
  [][(ChangesState /\ fsr'.mActualProfile # FullResolution) =>
       /\ fsr'.mInputSize[1] % 32 = 0 /\ fsr'.mInputSize[2] % 32 = 0
       /\ fsr'.mInputSize = <<Align32(OptimalRenderSize(fsr')[1]),
                              Align32(OptimalRenderSize(fsr')[2])>>
    ]_vars

\* C33: after any sequence of setSetting calls the input size reported by
\* getInputSize does not exceed the output size reported by getOutputSize in
\* either dimension, for every display size and every profile
C33_InputWithinOutput ==
  /\ getInputSize[1] <= getOutputSize[1]
  /\ getInputSize[2] <= getOutputSize[2]

\* C34: after any sequence of setSetting calls getInputSize returns the
\* outRenderSize written by the most recent setSetting call and getOutputSize
\* the displaySize passed to that call
C34_SizesAreThoseOfLastCall ==
  /\ getInputSize = fsr.outRenderSize
  /\ getOutputSize = fsr.lastArgs.displaySize

\* a setting has been changed for a 4K display, then asked for again, and
\* the reported sizes differ
C34_Witness ==
  /\ fsr.lastOp = "setSetting" /\ fsr.stateChanging /\ ~fsr.pending
  /\ fsr.lastArgs.displaySize = <<3840, 2160>>
  /\ getInputSize # <<0, 0>> /\ getInputSize # getOutputSize

\* display heights at and around the limits of the table
TableHeights == {0, 720, 1080, 1081, 1440, 2159, 2160, 4319, 4320, 4321}

\* the profile the table gives for a display height
TableProfile(displayHeight) ==
  CASE displayHeight <= 1080 -> MaxQuality
    [] displayHeight > 1080 /\ displayHeight < 2160 -> Balanced
    [] displayHeight >= 2160 /\ displayHeight < 4320 -> MaxPerf
    [] OTHER -> UltraPerf

\* a profile lowered by the steps of a graphics preset, not below UltraPerf
Lowered(profile, graphicsPreset) ==
  LET steps == CASE graphicsPreset = "Medium" -> 1
                 [] graphicsPreset = "Low" -> 2
                 [] OTHER -> 0
  IN  IF profile - steps < UltraPerf THEN UltraPerf ELSE profile - steps

\* C35: getAutoProfile selects MaxQuality for a display height up to 1080,
\* Balanced below 2160, MaxPerf below 4320 and UltraPerf otherwise, lowered
\* by one step for the Medium preset and by two for the Low preset but not
\* below UltraPerf; the result is one of UltraPerf, MaxPerf, Balanced,
\* MaxQuality and does not increase with the display height; it is the
\* profile a setSetting call with Auto resolves to
C35_AutoProfileTable ==
  (fsr.lastOp = "setSetting" /\ fsr.lastArgs.profile = Auto) =>
    LET w == fsr.lastArgs.displaySize[1]
        h == fsr.lastArgs.displaySize[2]
        g == fsr.graphicsPreset
    IN  /\ getCurrentProfile = Lowered(TableProfile(h), g)
        /\ getCurrentProfile \in {UltraPerf, MaxPerf, Balanced, MaxQuality}
        /\ \A h2 \in TableHeights :
             /\ getAutoProfile(w, h2, g) = Lowered(TableProfile(h2), g)
             /\ h <= h2 => getAutoProfile(w, h2, g) <= getCurrentProfile
             /\ h2 <= h => getAutoProfile(w, h2, g) >= getCurrentProfile

\* Auto on a 4K display under the Low preset: MaxPerf lowered to UltraPerf
C35_Witness ==
  /\ fsr.lastOp = "setSetting" /\ fsr.lastArgs.profile = Auto
  /\ fsr.lastArgs.displaySize = <<3840, 2160>> /\ fsr.graphicsPreset = "Low"
  /\ getCurrentProfile = UltraPerf

\* ------------------------------------------------------------------------
\* The box of a draw without vertices
\* ------------------------------------------------------------------------
\* C37: every box delivered through a valid Future of
\* computeAxisAlignedBoundingBox has min <= max on each axis, for every
\* vertexCount, 0 included
C37_BoxMinNotAboveMax ==
  bb.pc = "done" => bb.box.min <= bb.box.max

\* ------------------------------------------------------------------------
\* Calls on an FSR3UpscalerContext
\* ------------------------------------------------------------------------
InitUpscaler ==
  /\ upscalerContext \in {NewUpscaler(revision) : revision \in InitializeRevisions}
  /\ fsr3Context = IdleFSR3Context
  /\ deviceFilter = IdleFilter
  /\ fsr = IdleFSR3
  /\ hashRule = HashComponents
  /\ ndebug = TRUE
  /\ vsCapture = FALSE
  /\ IdleCalls
  /\ dd = DedupIdle
  /\ hp = PairIdle
  /\ bb = AabbIdle

NextUpscaler ==
  \/ \E created, isContentHDR, depthInverted \in BOOLEAN :
       UpscalerInitialize(created, isContentHDR, depthInverted)
  \/ UpscalerRelease
  \/ UpscalerDestroy
  \/ UpscalerConstruct

SpecUpscaler == InitUpscaler /\ [][NextUpscaler]_vars

InitContext ==
  /\ fsr3Context \in {FSR3Context(device, size, ffxOk) :
                         device \in BOOLEAN, size \in WorkGroupSizes, ffxOk \in BOOLEAN}
  /\ upscalerContext = IdleUpscaler
  /\ deviceFilter = IdleFilter
  /\ fsr = IdleFSR3
  /\ hashRule = HashComponents
  /\ ndebug = TRUE
  /\ vsCapture = FALSE
  /\ IdleCalls
  /\ dd = DedupIdle
  /\ hp = PairIdle
  /\ bb = AabbIdle

NextContext ==
  \/ \E ffxOk \in BOOLEAN : FSR3ContextCreateUpscaler(ffxOk)
  \/ FSR3ContextShutdown

SpecContext == InitContext /\ [][NextContext]_vars

\* C39: over any sequence of construction, createFSR3UpscalerContext and
\* shutdown, supportsFSR3() is true exactly when the context is initialized;
\* shutdown is idempotent; and createFSR3UpscalerContext returns a context
\* exactly when, after its lazy initialization attempt, the FSR3Context is
\* initialized and supported: nullptr when the device is null, the support
\* check fails or the Vulkan interface could not be created
C39_SupportedIffInitialized ==
  LET c == fsr3Context
  IN  /\ c.m_supportsFSR3 <=> c.m_initialized
      /\ shutdown(shutdown(c)) = shutdown(c)
      /\ c.lastOp = "shutdown" => ~c.m_initialized /\ shutdown(c) = c
      /\ c.lastOp = "createFSR3UpscalerContext" =>
           /\ c.returned = "context" <=> (c.m_initialized /\ c.m_supportsFSR3)
           /\ c.returned \in {"context", "nullptr"}
           /\ (\/ ~c.m_device
               \/ ~checkFSR3Support(c)
               \/ c.attempt = "interface") => c.returned = "nullptr"
           /\ c.returned = "context" => c.m_ffxInterface

\* a context shut down has been initialized again by
\* createFSR3UpscalerContext, which returned an upscaler context
C39_Witness ==
  /\ fsr3Context.lastOp = "createFSR3UpscalerContext"
  /\ fsr3Context.attempt = "ok" /\ fsr3Context.returned = "context"
  /\ fsr3Context.calls >= 2

\* ------------------------------------------------------------------------
\* Adapters tested by a DxvkDeviceFilter
\* ------------------------------------------------------------------------
InitFilter ==
  /\ deviceFilter \in {DxvkDeviceFilter(flags, env) :
                          flags \in SUBSET DxvkDeviceFilterFlags, env \in DeviceNames}
  /\ upscalerContext = IdleUpscaler
  /\ fsr3Context = IdleFSR3Context
  /\ fsr = IdleFSR3
  /\ hashRule = HashComponents
  /\ ndebug = TRUE
  /\ vsCapture = FALSE
  /\ IdleCalls
  /\ dd = DedupIdle
  /\ hp = PairIdle
  /\ bb = AabbIdle

NextFilter == \E properties \in AdapterProperties : TestAdapter(properties)

SpecFilter == InitFilter /\ [][NextFilter]_vars

\* the version is Vulkan 1.1 or later
AtLeastVulkan11(apiVersion) ==
  LET major == apiVersion \div 2^22
      minor == (apiVersion \div 2^12) % 2^10
  IN  major > 1 \/ (major = 1 /\ minor >= 1)

\* the name occurs somewhere in the device name
Contains(deviceName, name) ==
  \E i \in 1..(Len(deviceName) + 1) :
    /\ i + Len(name) - 1 <= Len(deviceName)
    /\ \A k \in 1..Len(name) : deviceName[i + k - 1] = name[k]

\* C38: testAdapter accepts an adapter exactly when its API version is at
\* least Vulkan 1.1, it is not a CPU device while SkipCpuDevices is set, and
\* its device name contains the filter name while MatchDeviceName is set;
\* the constructor sets MatchDeviceName whenever DXVK_FILTER_DEVICE_NAME is
\* not empty; and no vendor is rejected: the answer is the same for the
\* adapter of any other vendor
C38_AdapterAcceptedExactlyWhen ==
  LET f == deviceFilter
      p == f.properties
  IN  /\ Len(f.environment) # 0 =>
           "MatchDeviceName" \in f.m_flags /\ f.m_matchDeviceName = f.environment
      /\ f.lastOp = "testAdapter" =>
           /\ f.result <=>
                /\ AtLeastVulkan11(p.apiVersion)
                /\ ~("SkipCpuDevices" \in f.m_flags /\ p.deviceType = "CPU")
                /\ "MatchDeviceName" \in f.m_flags => Contains(p.deviceName, f.m_matchDeviceName)
           /\ \A vendorID \in VendorIDs :
                testAdapter(f, [p EXCEPT !.vendorID = vendorID]) = f.result

\* an NVIDIA adapter whose name contains the name asked for is accepted
C38_Witness ==
  /\ deviceFilter.lastOp = "testAdapter" /\ deviceFilter.result
  /\ deviceFilter.m_matchDeviceName = <<"b">>
  /\ deviceFilter.properties.deviceName = <<"a", "b">>
  /\ deviceFilter.properties.vendorID = "NVIDIA"
  /\ "SkipCpuDevices" \in deviceFilter.m_flags

====
